---- MODULE Spec2Model ----
(***************************************************************************)
(* State-machine model of the task-runner worker process of                *)
(* task-sdk/src/airflow/sdk/execution_time/task_runner.py:                 *)
(*   main() = startup() ; run() ; finalize() ; exit.                       *)
(* One behaviour is one worker attempt.  Every call into code outside the  *)
(* module (the task body, hooks, the trigger, the XCom backend, the        *)
(* supervisor's replies) is an input drawn from a small set.               *)
(***************************************************************************)
EXTENDS Integers, Sequences, FiniteSets, TLC

VARIABLES
    pc,           \* position of the worker inside main()/run()
    task,         \* the operator's configuration (ti.task)
    ctx,          \* ti._ti_context_from_server (present flag + fields)
    keysLeft,     \* xcom_keys_to_clear still to delete
    events,       \* ordered log of requests sent and XCom operations
    msg,          \* run(): local `msg`
    state,        \* run(): local `state`
    error,        \* run(): local `error` (kind of the exception, or "None")
    exc,          \* exception caught by run()'s except clauses
    escaping,     \* kind of the exception escaping run() ("None" if none)
    raisedBy,     \* step of run()'s try block that raised exc
    handler,      \* index of the except clause of run() that caught exc
    result,       \* value returned by _execute_task
    bodyInvoked,  \* the task body (execute / resume_execution) was called
    deadlineHit,  \* the fast-fail "already timed out" branch was taken
    polls,        \* GetDagRunState polls issued by _handle_trigger_dag_run
    interrupts,   \* phases in which a KeyboardInterrupt arrived
    abort,        \* why main() left the pipeline abnormally ("None" if not)
    exitCode,     \* process exit code once pc = "exited" (-1 before)
    request_socket, \* SUPERVISOR_COMMS.request_socket: 0 is None, else the open fd
    xcoms,        \* the XCom backend: the values set so far, by coordinates
    call,         \* the latest call of a channel / task-instance method and its result
    hooks,        \* ordered log of callbacks, listener notifications and e-mails run
    entry,        \* the entry point of the task the body was invoked through
    environ       \* os.environ: the names of the variables set by this process

vars == <<pc, task, ctx, keysLeft, events, msg, state, error, exc, escaping, raisedBy,
          handler, result, bodyInvoked, deadlineHit, polls, interrupts, abort,
          exitCode, request_socket, xcoms, call, hooks, entry, environ>>

-----------------------------------------------------------------------------
(* Bounds of the model *)

\* longest xcom_keys_to_clear list sent by the server
MaxKeys == 2
\* number of polls the supervisor may answer with a non-final run state
MaxPolls == 2
\* number of requests written to the socket by an exercised channel
MaxWrites == 2
\* number of values the XCom backend holds when xcom_pull is exercised
MaxPushes == 2
\* length of a task's callback lists (on_execute_callback, on_success_callback, ...)
MaxCallbacks == 2

-----------------------------------------------------------------------------
(* Values *)

XComKeys == {"k1", "k2"}

\* task.execution_timeout as whole seconds; "None" is spelled NoTimeout
NoTimeout == -100
Timeouts == {NoTimeout, -1, 0, 1}

\* TerminalTIState / IntermediateTIState
SUCCESS == "success"
FAILED == "failed"
SKIPPED == "skipped"
UP_FOR_RETRY == "up_for_retry"
UP_FOR_RESCHEDULE == "up_for_reschedule"
DEFERRED == "deferred"
NoState == "unbound"

\* A request written by SUPERVISOR_COMMS.send_request, or an XCom operation.
\* len is the mapped length of an XCom.set and try_number the field of
\* GetTaskRescheduleStartDate (-1: None / not applicable).
Msg(type, st, tasks, key) ==
    [type |-> type, state |-> st, tasks |-> tasks, key |-> key, len |-> -1,
     try_number |-> -1]

\* XCom.set(key=..., _mapped_length=...)
XComSet(key, mappedLength) ==
    [type |-> "XCom.set", state |-> "", tasks |-> <<>>, key |-> key,
     len |-> mappedLength, try_number |-> -1]

\* GetTaskRescheduleStartDate(ti_id=self.id, try_number=n)
GetTaskRescheduleStartDate(n) ==
    [Msg("GetTaskRescheduleStartDate", "", <<>>, "") EXCEPT !.try_number = n]

\* A line consumed by get_message, as logged: the variant read, or DecodeError.
Read(what) == Msg("get_message", what, <<>>, "")

NoMsg == Msg("None", "", <<>>, "")

\* The final outcome message variants of ToSupervisor.
OutcomeTypes == {"SucceedTask", "TaskState", "RetryTask", "RescheduleTask", "DeferTask"}

\* Exception classes named by run()'s except clauses.
ExcKinds ==
    {"DownstreamTasksSkipped", "DagRunTriggerException", "TaskDeferred",
     "AirflowSkipException", "AirflowRescheduleException", "AirflowFailException",
     "AirflowSensorTimeout", "AirflowTaskTimeout", "AirflowException",
     "AirflowTaskTerminated", "SystemExit", "KeyboardInterrupt", "Exception"}

\* States a triggered run can report.
DagRunStates == {"queued", "running", "success", "failed"}

\* An exception with the payload run() reads from it.
\* tasks: DownstreamTasksSkipped.tasks when it is a list; bare: the same
\* attribute when it is one task id and not a list.
Exc(kind, tasksIsList, tasks, bare, skipExists, wait, allowed, failedStates) ==
    [kind |-> kind, tasksIsList |-> tasksIsList, tasks |-> tasks, bare |-> bare,
     skip_when_already_exists |-> skipExists, wait_for_completion |-> wait,
     allowed_states |-> allowed, failed_states |-> failedStates]

Plain(kind) == Exc(kind, TRUE, <<>>, "", FALSE, FALSE, {}, {})

NoExc == Plain("None")

\* DownstreamTasksSkipped(tasks=...): a list, or one bare task id.
SkipSignals ==
    { Exc("DownstreamTasksSkipped", TRUE, <<"t1", "t2">>, "", FALSE, FALSE, {}, {}),
      Exc("DownstreamTasksSkipped", TRUE, <<>>, "", FALSE, FALSE, {}, {}),
      Exc("DownstreamTasksSkipped", FALSE, <<>>, "t1", FALSE, FALSE, {}, {}) }

\* DagRunTriggerException(...) as raised by TriggerDagRunOperator.
TriggerSignals ==
    { Exc("DagRunTriggerException", TRUE, <<>>, "", s, w, a, f) :
        s \in BOOLEAN, w \in BOOLEAN,
        a \in {{"success"}, {"success", "failed"}},
        f \in {{"failed"}} }

\* Everything user code (task body, hooks, template rendering) can raise.
UserRaises ==
    {Plain(k) : k \in ExcKinds \ {"DownstreamTasksSkipped", "DagRunTriggerException"}}
        \cup SkipSignals \cup TriggerSignals

\* What a library call outside the task's control can raise.
LibRaises == {Plain("Exception"), Plain("KeyboardInterrupt")}

\* Values a task body can return: None, a scalar, a list, a mapping.
\* items: one entry per element; isStr tells whether a mapping key is a str.
Val(kind, items) == [kind |-> kind, items |-> items]
NoneVal == Val("None", <<>>)
Results ==
    { NoneVal,
      Val("Scalar", <<>>),
      Val("List", <<[k |-> "0", isStr |-> FALSE], [k |-> "1", isStr |-> FALSE]>>),
      Val("Dict", <<[k |-> "a", isStr |-> TRUE], [k |-> "b", isStr |-> TRUE]>>),
      Val("Dict", <<[k |-> "a", isStr |-> TRUE], [k |-> "7", isStr |-> FALSE]>>) }

RECURSIVE SeqsUpTo(_, _)
SeqsUpTo(S, n) ==
    IF n = 0 THEN {<<>>}
    ELSE SeqsUpTo(S, n - 1) \cup
         {Append(s, x) : s \in {t \in SeqsUpTo(S, n - 1) : Len(t) = n - 1}, x \in S}

-----------------------------------------------------------------------------
(* Pure helpers of run() *)

\* Classes each exception kind is an instance of (airflow.exceptions and the
\* Python built-ins): the isinstance relation the except clauses test.
Bases(kind) ==
    CASE kind \in {"DownstreamTasksSkipped", "DagRunTriggerException",
                   "AirflowSkipException", "AirflowRescheduleException",
                   "AirflowFailException", "AirflowSensorTimeout"}
            -> {kind, "AirflowException", "Exception", "BaseException"}
      [] kind = "AirflowException" -> {kind, "Exception", "BaseException"}
      [] kind = "Exception" -> {kind, "BaseException"}
      [] kind \in {"XComForMappingNotPushed", "UnmappableXComTypePushed", "TypeError"}
            -> {kind, "Exception", "BaseException"}
      [] OTHER -> {kind, "BaseException"}

ExceptClausesSwapped ==
    << {"DownstreamTasksSkipped"},
       {"DagRunTriggerException"},
       {"TaskDeferred"},
       {"AirflowTaskTimeout", "AirflowException"},
       {"AirflowSkipException"},
       {"AirflowRescheduleException"},
       {"AirflowFailException", "AirflowSensorTimeout"},
       {"AirflowTaskTerminated"},
       {"SystemExit"},
       {"BaseException"} >>

ExceptClausesWithoutTerminated ==
    << {"DownstreamTasksSkipped"},
       {"DagRunTriggerException"},
       {"TaskDeferred"},
       {"AirflowSkipException"},
       {"AirflowRescheduleException"},
       {"AirflowFailException", "AirflowSensorTimeout"},
       {"AirflowTaskTimeout", "AirflowException"},
       {},
       {"SystemExit"},
       {"BaseException"} >>

\* The except clauses of run()'s try statement, in source order.
ExceptClauses ==
    << {"DownstreamTasksSkipped"},
       {"DagRunTriggerException"},
       {"TaskDeferred"},
       {"AirflowSkipException"},
       {"AirflowRescheduleException"},
       {"AirflowFailException", "AirflowSensorTimeout"},
       {"AirflowTaskTimeout", "AirflowException"},
       {"AirflowTaskTerminated"},
       {"SystemExit"},
       {"BaseException"} >>

FirstMatchLast(kind) ==
    LET hits == {i \in 1..Len(ExceptClauses) : ExceptClauses[i] \cap Bases(kind) # {}}
    IN  CHOOSE i \in hits : \A j \in hits : i >= j

\* Python's try/except: the first clause one of whose classes the exception
\* is an instance of.
FirstMatch(kind) ==
    LET hits == {i \in 1..Len(ExceptClauses) : ExceptClauses[i] \cap Bases(kind) # {}}
    IN  CHOOSE i \in hits : \A j \in hits : i <= j

\* Name of the class list of clause i (for the actions' guards).
Catches(kind, classes) == ExceptClauses[FirstMatch(kind)] = classes

ShouldRetryAlways(c) == TRUE

\* `ti._ti_context_from_server and ti._ti_context_from_server.should_retry`
ShouldRetry(c) == c.present /\ c.should_retry

HandleCurrentTaskFailedNoRetry(c) ==
    [msg |-> Msg("TaskState", FAILED, <<>>, ""), state |-> FAILED]

HandleCurrentTaskFailedStateOnly(c) ==
    [msg |-> Msg("TaskState", FAILED, <<>>, ""),
     state |-> IF ShouldRetry(c) THEN UP_FOR_RETRY ELSE FAILED]

\* _handle_current_task_failed
HandleCurrentTaskFailed(c) ==
    IF ShouldRetry(c)
    THEN [msg |-> Msg("RetryTask", "", <<>>, ""), state |-> UP_FOR_RETRY]
    ELSE [msg |-> Msg("TaskState", FAILED, <<>>, ""), state |-> FAILED]

\* _handle_current_task_success
HandleCurrentTaskSuccess ==
    [msg |-> Msg("SucceedTask", "", <<>>, ""), state |-> SUCCESS]

\* `if task.execution_timeout:` -- None and timedelta(0) are both falsy
Truthy(td) == td # NoTimeout /\ td # 0


MainExitCodeNoInterrupt(kind) == 1

MainExitCodeAlwaysInterrupt(kind) == 2

\* main(): `except KeyboardInterrupt: exit(2)` / `except Exception: exit(1)`
MainExitCode(kind) == IF kind = "KeyboardInterrupt" THEN 2 ELSE 1

\* timeout_seconds <= 0 ("already timed out")
AlreadyTimedOut(td) == td <= 0

TasksToSkipUnwrapped(e) == e.tasks

\* skip.tasks if isinstance(skip.tasks, list) else [skip.tasks]
TasksToSkip(e) == IF e.tasksIsList THEN e.tasks ELSE <<e.bare>>

\* _prepare's return value: always None (its last statement)
PrepareResult == NoMsg

-----------------------------------------------------------------------------
(* The message channel: CommsDecoder *)

\* Descriptor number the supervisor passes in StartupDetails.requests_fd.
SupervisorFd == 5

\* One line read from the worker's input.  text: "" is the empty record read
\* at end of input, "garbage" bytes that are no JSON document, "json" a JSON
\* document whose discriminator is variant; requests_fd is the field of that
\* name (carried by StartupDetails only) and start_date the field of that name
\* (carried by TaskRescheduleStartDate only).
Line(text, variant, fd) ==
    [text |-> text, variant |-> variant, requests_fd |-> fd, start_date |-> "None"]

\* A TaskRescheduleStartDate reply; its start_date may be null.
StartDates == {"None", "2024-01-01"}
DateLine(d) == [Line("json", "TaskRescheduleStartDate", 0) EXCEPT !.start_date = d]

\* The variants of ToTask read in the attempts explored.
ToTask ==
    {"StartupDetails", "ErrorResponse", "OKResponse", "DagRunStateResult",
     "TaskRescheduleStartDate"}

\* Lines no variant of ToTask validates: end of input, no JSON, unknown type.
BadLines == {Line("", "", 0), Line("garbage", "", 0), Line("json", "Unknown", 0)}

Lines ==
    BadLines
    \cup {Line("json", "StartupDetails", fd) : fd \in {-1, 0, SupervisorFd}}
    \cup {Line("json", v, 0) : v \in ToTask \ {"StartupDetails"}}
    \cup {DateLine(d) : d \in StartDates}

\* A decoded message, and the two non-messages.
Message(variant, fd) ==
    [variant |-> variant, requests_fd |-> fd, start_date |-> "None"]
NoMessage == Message("None", 0)
ValidationError == Message("ValidationError", 0)

\* self.decoder.validate_json(line): the message, or ValidationError raised
Decode(line) ==
    IF line.text = "json" /\ line.variant \in ToTask
    THEN [Message(line.variant, line.requests_fd) EXCEPT !.start_date = line.start_date]
    ELSE ValidationError

IsStartupDetailsAny(m) == TRUE

\* isinstance(msg, StartupDetails)
IsStartupDetails(m) == m.variant = "StartupDetails"

CarriesDescriptorAlways(m) == TRUE

\* `if msg.requests_fd > 0`
CarriesDescriptor(m) == m.requests_fd > 0

GetMessageSwallow(line, sock) ==
    [raised |-> FALSE, logged |-> Decode(line) = ValidationError,
     msg |-> IF Decode(line) = ValidationError THEN NoMessage ELSE Decode(line),
     request_socket |-> sock]

\* CommsDecoder.get_message on the next line of the input, request_socket
\* being sock: what it returns or raises, whether "Unable to decode message"
\* was logged, and request_socket afterwards.
GetMessage(line, sock) ==
    LET m == Decode(line) IN
    IF m = ValidationError
    THEN [raised |-> TRUE, logged |-> TRUE, msg |-> NoMessage, request_socket |-> sock]
    ELSE [raised |-> FALSE, logged |-> FALSE, msg |-> m,
          request_socket |-> IF IsStartupDetails(m) /\ CarriesDescriptor(m)
                             THEN m.requests_fd ELSE sock]

\* CommsDecoder.send_request: `self.request_socket.write(encoded_msg)` raises
\* (AttributeError on None) while request_socket is unset.
SendRequest(m, sock) ==
    IF sock = 0
    THEN [raised |-> TRUE, written |-> <<>>]
    ELSE [raised |-> FALSE, written |-> <<m>>]

\* The record kept of the latest call.
NoCall == [op |-> "None"]
GetMessageCall(line, sock) ==
    [op |-> "get_message", line |-> line, socketBefore |-> sock,
     raised |-> GetMessage(line, sock).raised,
     logged |-> GetMessage(line, sock).logged,
     msg |-> GetMessage(line, sock).msg]

-----------------------------------------------------------------------------
(* Task configurations and run contexts of the attempts explored *)

\* task.retries is None
NoRetries == -1

\* sensor: the task body is a sensor in reschedule mode, which asks for its
\* first reschedule date (ti.get_first_reschedule_date) before poking.
\* The on_*_callback fields and operator_extra_links are the lengths of the
\* lists of those names; email tells whether task.email names a recipient;
\* has_listeners whether listener plugins are registered with
\* get_listener_manager() in the process running the task (with none
\* registered a notification calls nothing and cannot raise).
BaseTask ==
    [execution_timeout |-> NoTimeout, do_xcom_push |-> TRUE,
     multiple_outputs |-> FALSE, is_mapped |-> FALSE,
     pre_execute_hook |-> FALSE, post_execute_hook |-> FALSE,
     template_fields |-> TRUE, sensor |-> FALSE, retries |-> NoRetries,
     on_execute_callback |-> 0, on_success_callback |-> 0,
     on_failure_callback |-> 0, on_retry_callback |-> 0,
     on_skipped_callback |-> 0,
     email |-> FALSE, email_on_failure |-> TRUE, email_on_retry |-> TRUE,
     operator_extra_links |-> 0, overwrite_rtif_after_execution |-> FALSE,
     has_listeners |-> FALSE]

\* A task with on_execute callbacks.
ExecuteCallbackTasks == {[BaseTask EXCEPT !.on_execute_callback = MaxCallbacks]}

\* Tasks with state-change callbacks, extra links and rendered fields to
\* overwrite, and tasks with each setting of the e-mail options.
FinalizeTasks ==
    {[BaseTask EXCEPT !.on_success_callback = MaxCallbacks,
                      !.on_failure_callback = MaxCallbacks,
                      !.on_retry_callback = MaxCallbacks,
                      !.on_skipped_callback = MaxCallbacks,
                      !.email = TRUE, !.operator_extra_links = 1,
                      !.overwrite_rtif_after_execution = TRUE,
                      !.has_listeners = TRUE]}
    \cup {[BaseTask EXCEPT !.email = TRUE, !.email_on_failure = f, !.email_on_retry = r] :
            f \in BOOLEAN, r \in {TRUE}}
    \cup {[BaseTask EXCEPT !.email = TRUE, !.email_on_failure = TRUE,
                            !.email_on_retry = FALSE]}

SensorTasks ==
    {[BaseTask EXCEPT !.sensor = TRUE, !.retries = r] : r \in {NoRetries, 0, 1}}
    \cup {[BaseTask EXCEPT !.sensor = TRUE, !.execution_timeout = 1]}

TaskConfigs ==
    {[BaseTask EXCEPT !.execution_timeout = t, !.pre_execute_hook = h] :
        t \in Timeouts, h \in BOOLEAN}
    \cup {[BaseTask EXCEPT !.do_xcom_push = p, !.post_execute_hook = h,
                           !.template_fields = f] :
            p \in BOOLEAN, h \in BOOLEAN, f \in BOOLEAN}
    \cup {[BaseTask EXCEPT !.do_xcom_push = p, !.is_mapped = m,
                           !.multiple_outputs = o] :
            p \in BOOLEAN, m \in BOOLEAN, o \in BOOLEAN}
    \cup ExecuteCallbackTasks
    \cup FinalizeTasks

NoContext ==
    [present |-> FALSE, should_retry |-> FALSE, xcom_keys_to_clear |-> <<>>,
     task_reschedule_count |-> 0, max_tries |-> 0,
     next_method |-> "None", next_kwargs |-> "None"]

Contexts ==
    {NoContext} \cup
    {[present |-> TRUE, should_retry |-> r, xcom_keys_to_clear |-> ks,
      task_reschedule_count |-> 0, max_tries |-> 0,
      next_method |-> "None", next_kwargs |-> "None"] :
        r \in BOOLEAN, ks \in SeqsUpTo(XComKeys, MaxKeys)}

\* Contexts of a sensor: never or already rescheduled, with the try budget.
SensorContext(count, maxTries) ==
    [present |-> TRUE, should_retry |-> FALSE, xcom_keys_to_clear |-> <<>>,
     task_reschedule_count |-> count, max_tries |-> maxTries,
     next_method |-> "None", next_kwargs |-> "None"]

SensorContexts == {SensorContext(0, 1), SensorContext(1, 1), SensorContext(1, 2)}

\* A context without stale keys, for every retry policy.
PlainContexts == {c \in Contexts : c.xcom_keys_to_clear = <<>>}

\* next_kwargs as the server stores it: nothing, the serialized empty mapping
\* or a serialized mapping with one entry.
StoredKwargs == {"None", "{}", "{\"__var\": {\"event\": 1}}"}

\* Contexts of a task resumed after a deferral: the method to resume with and
\* the stored keyword arguments.
ResumeContexts ==
    {[present |-> TRUE, should_retry |-> FALSE, xcom_keys_to_clear |-> <<>>,
      task_reschedule_count |-> 0, max_tries |-> 0,
      next_method |-> "execute_complete", next_kwargs |-> k] : k \in StoredKwargs}

\* The (task, context) pairs of the attempts explored: every task
\* configuration under every retry policy, and every context for the base task.
Attempts ==
    (TaskConfigs \X PlainContexts) \cup ({BaseTask} \X Contexts)
        \cup (SensorTasks \X SensorContexts)
        \cup ({[BaseTask EXCEPT !.sensor = TRUE]} \X {NoContext})
        \cup ({BaseTask} \X ResumeContexts)

-----------------------------------------------------------------------------
(* Callbacks, listener notifications and e-mails *)

\* One entry of the log: the hook called, its index in its list (0 for a
\* listener notification) and whether the call raised an Exception.
Hook(name, i, raised) == [hook |-> name, index |-> i, raised |-> raised]

RunTaskStateChangeCallbacksStopAtError(t, kind, bad) ==
    LET all == [i \in 1..t[kind] |-> Hook(kind, i, i \in bad)] IN
    SelectSeq(all, LAMBDA h : \A j \in bad : h.index <= j)

\* _run_task_state_change_callbacks(task, kind, context, log), the callbacks
\* whose index is in bad raising an Exception: every callback of the list is
\* called in list order, each inside its own try / except Exception
RunTaskStateChangeCallbacks(t, kind, bad) ==
    [i \in 1..t[kind] |-> Hook(kind, i, i \in bad)]

ExecuteCallbacksStopAtError(t, bad) ==
    RunTaskStateChangeCallbacksStopAtError(t, "on_execute_callback", bad)

\* _execute_task: _run_task_state_change_callbacks(task, "on_execute_callback", ...)
ExecuteCallbacks(t, bad) == RunTaskStateChangeCallbacks(t, "on_execute_callback", bad)

ListenerErrorCaughtNever(e) == FALSE

\* startup() and _prepare() notify their listener inside
\* `try: ... except Exception: log.exception("error calling listener")`
ListenerErrorCaught(e) == "Exception" \in Bases(e.kind)

HookErrorLogged(e) == "Exception" \notin Bases(e.kind)

\* _execute_task calls the pre-execute and the post-execute hook outside any
\* try statement: whatever the hook raises leaves _execute_task
HookErrorEscapes(e) == TRUE

-----------------------------------------------------------------------------
(* The worker process *)

\* No entry point of the task has been invoked.
NoEntry == [method |-> "None", next_method |-> "None", next_kwargs |-> "None"]

\* BaseSerialization.deserialize on a stored mapping of keyword arguments:
\* the mapping the "__var" envelope wraps, the empty mapping staying empty
Deserialize(k) == IF k = "{\"__var\": {\"event\": 1}}" THEN "{\"event\": 1}" ELSE k

ExecuteAlwaysNormal(c) ==
    [method |-> "execute", next_method |-> "None", next_kwargs |-> "None"]

\* _execute_task: `execute = task.execute`, replaced by
\* functools.partial(task.resume_execution, next_method=..., next_kwargs=...)
\* when the context from the server carries a next_method
Execute(c) ==
    IF c.present /\ c.next_method # "None"
    THEN [method |-> "resume_execution", next_method |-> c.next_method,
          next_kwargs |-> Deserialize(IF c.next_kwargs = "None" THEN "{}"
                                      ELSE c.next_kwargs)]
    ELSE [method |-> "execute", next_method |-> "None", next_kwargs |-> "None"]

\* context_to_airflow_vars(context, in_env_var_format=True): the names of the
\* variables the context is exported under
AirflowContextVars == {"AIRFLOW_CTX_DAG_ID", "AIRFLOW_CTX_TASK_ID", "AIRFLOW_CTX_TRY_NUMBER"}

\* _execute_task: os.environ.update(airflow_context_vars)
EnvironUpdate(env) == env \cup AirflowContextVars

KeysToDeleteFirstOnly(c) ==
    IF c.present /\ c.xcom_keys_to_clear # <<>> THEN <<Head(c.xcom_keys_to_clear)>>
    ELSE <<>>

\* The keys run() deletes before preparing the task: xcom_keys_to_clear of
\* the context from the server, none without such a context
KeysToDelete(c) == IF c.present THEN c.xcom_keys_to_clear ELSE <<>>

RenderedFieldsRequestAlways(t) == <<Msg("SetRenderedFields", "", <<>>, "")>>

\* _prepare: `if rendered_fields := _serialize_rendered_fields(ti.task)`: the
\* request is sent when the task has a template field
RenderedFieldsRequest(t) ==
    IF t.template_fields THEN <<Msg("SetRenderedFields", "", <<>>, "")>> ELSE <<>>

\* The locals of main() and run() before startup.
Fresh ==
    /\ keysLeft = <<>>
    /\ events = <<>>
    /\ msg = NoMsg
    /\ state = NoState
    /\ error = "None"
    /\ exc = NoExc
    /\ escaping = "None"
    /\ raisedBy = "None"
    /\ handler = 0
    /\ result = NoneVal
    /\ bodyInvoked = FALSE
    /\ deadlineHit = FALSE
    /\ polls = 0
    /\ interrupts = {}
    /\ abort = "None"
    /\ exitCode = -1
    /\ hooks = <<>>
    /\ entry = NoEntry
    /\ environ = {}

\* main(): SUPERVISOR_COMMS = CommsDecoder(input=sys.stdin); nothing read yet
Init ==
    /\ pc = "startup"
    /\ \E a \in Attempts : task = a[1] /\ ctx = a[2]
    /\ Fresh
    /\ request_socket = 0
    /\ xcoms = {}
    /\ call = NoCall

\* The process ends: main() returned (code 0) or called exit(code).
Exit(code, cause) ==
    /\ pc' = "exited"
    /\ exitCode' = code
    /\ abort' = cause

\* An exception raised inside run()'s try block: control goes to the except
\* clauses.
TryRaise(e, by) ==
    /\ exc' = e
    /\ raisedBy' = by
    /\ pc' = "except"
    /\ UNCHANGED escaping
    /\ interrupts' = IF e.kind = "KeyboardInterrupt" THEN interrupts \cup {by}
                     ELSE interrupts

\* An exception raised inside an except clause of run(): nothing in run()
\* catches it; the finally block runs and it propagates to main().
HandlerRaise(e, cause) ==
    /\ escaping' = e.kind
    /\ abort' = cause
    /\ pc' = "finally_raise"
    /\ interrupts' = IF e.kind = "KeyboardInterrupt" THEN interrupts \cup {"handler"}
                     ELSE interrupts

\* The first line the parent writes: a StartupDetails carrying the descriptor
\* of the requests socket when the parent is the supervisor, anything else
\* otherwise.
StartupLines == Lines \ {Line("json", "StartupDetails", fd) : fd \in {-1, 0}}

\* startup(): first message, listener, parse, template context
Startup ==
    /\ pc = "startup"
    /\ \/ \* interrupted while blocked in readline
          /\ Exit(MainExitCode("KeyboardInterrupt"), "StartupInterrupt")
          /\ interrupts' = interrupts \cup {"startup"}
          /\ UNCHANGED <<keysLeft, request_socket, call>>
          /\ UNCHANGED hooks
       \/ \E first \in StartupLines, out \in {"ok", "Exception", "KeyboardInterrupt"},
             lr \in BOOLEAN :
            LET got == GetMessage(first, request_socket) IN
            /\ lr => task.has_listeners
            /\ call' = GetMessageCall(first, request_socket)
            /\ request_socket' = got.request_socket
            /\ IF got.raised THEN
                  /\ ~lr
                  /\ Exit(MainExitCode("Exception"), "StartupDecodeError")
                  /\ UNCHANGED <<keysLeft, interrupts, hooks>>
               ELSE IF out = "KeyboardInterrupt" THEN
                  \* on_starting listener, parse or get_template_context interrupted
                  /\ ~lr
                  /\ Exit(MainExitCode(out), "StartupInterrupt")
                  /\ interrupts' = interrupts \cup {"startup"}
                  /\ UNCHANGED <<keysLeft, hooks>>
               ELSE
                  \* the on_starting listener is notified before the message is
                  \* examined; lr: it raises an Exception
                  /\ hooks' = Append(hooks, Hook("on_starting", 0, lr))
                  /\ IF lr /\ ~ListenerErrorCaught(Plain("Exception")) THEN
                        /\ Exit(MainExitCode("Exception"), "ListenerError")
                        /\ UNCHANGED <<keysLeft, interrupts>>
                     ELSE IF ~IsStartupDetails(got.msg) THEN
                        /\ Exit(MainExitCode("Exception"), "StartupError")
                        /\ UNCHANGED <<keysLeft, interrupts>>
                     ELSE IF out = "Exception" THEN
                        /\ Exit(MainExitCode("Exception"), "ResolutionError")
                        /\ UNCHANGED <<keysLeft, interrupts>>
                     ELSE
                        /\ keysLeft' = KeysToDelete(ctx)
                        /\ pc' = IF KeysToDelete(ctx) # <<>> THEN "clear" ELSE "prepare"
                        /\ UNCHANGED <<exitCode, abort, interrupts>>
    /\ UNCHANGED <<task, ctx, events, msg, state, error, exc, escaping, raisedBy, handler,
                   result, bodyInvoked, deadlineHit, polls>>
    /\ UNCHANGED <<xcoms, entry, environ>>

\* run(): one iteration of the loop deleting xcom_keys_to_clear
ClearXCom ==
    /\ pc = "clear"
    /\ keysLeft # <<>>
    /\ \/ /\ events' = Append(events, Msg("XCom.delete", "", <<>>, Head(keysLeft)))
          /\ keysLeft' = Tail(keysLeft)
          /\ pc' = IF Tail(keysLeft) = <<>> THEN "prepare" ELSE "clear"
          /\ UNCHANGED <<exc, escaping, raisedBy, interrupts>>
       \/ /\ \E e \in LibRaises : TryRaise(e, "clear")
          /\ UNCHANGED <<events, keysLeft>>
    /\ UNCHANGED <<task, ctx, msg, state, error, handler, result, bodyInvoked,
                   deadlineHit, polls, abort, exitCode>>
    /\ UNCHANGED <<request_socket, xcoms, call, hooks, entry, environ>>

\* What hooks, callbacks and template rendering raise in the attempts explored.
HookRaises ==
    {Plain(k) : k \in {"AirflowSkipException", "AirflowFailException",
                       "AirflowException", "Exception", "KeyboardInterrupt"}}

\* run(): `if early_exit := _prepare(ti, log, context)`
Prepare ==
    /\ pc = "prepare"
    /\ \/ \* hostname / prepare_for_execution / render_templates raises
          /\ \E e \in HookRaises : TryRaise(e, "prepare")
          /\ UNCHANGED <<events, msg, state, hooks>>
       \/ \* rendered; SetRenderedFields sent if any field was rendered; the
          \* on_task_instance_running listener is guarded by `except Exception`
          /\ events' = events \o RenderedFieldsRequest(task)
          /\ \/ /\ TryRaise(Plain("KeyboardInterrupt"), "prepare")
                /\ UNCHANGED <<msg, state, hooks>>
             \/ \* lr: the on_task_instance_running listener raises an Exception
                \E lr \in BOOLEAN :
                  /\ lr => task.has_listeners
                  /\ hooks' = Append(hooks, Hook("on_task_instance_running", 0, lr))
                  /\ IF lr /\ ~ListenerErrorCaught(Plain("Exception"))
                     THEN /\ TryRaise(Plain("Exception"), "prepare")
                          /\ UNCHANGED <<msg, state>>
                     ELSE /\ IF PrepareResult # NoMsg
                             THEN /\ msg' = PrepareResult
                                  /\ state' = FAILED
                                  /\ pc' = "finally"
                             ELSE /\ pc' = "pre_execute"
                                  /\ UNCHANGED <<msg, state>>
                          /\ UNCHANGED <<exc, escaping, raisedBy, interrupts>>
    /\ UNCHANGED <<task, ctx, keysLeft, error, handler, result, bodyInvoked,
                   deadlineHit, polls, abort, exitCode>>
    /\ UNCHANGED <<request_socket, xcoms, call, entry, environ>>


\* _execute_task: the context is exported to os.environ, then the pre-execute
\* hook, then the on_execute callbacks (each guarded by `except Exception`)
ExecutePre ==
    /\ pc = "pre_execute"
    /\ LET pre == IF task.pre_execute_hook THEN <<Hook("pre_execute", 0, FALSE)>>
                  ELSE <<>>
       IN
       \/ /\ task.pre_execute_hook
          /\ \E e \in HookRaises :
               IF HookErrorEscapes(e)
               THEN /\ TryRaise(e, "pre_execute")
                    /\ hooks' = Append(hooks, Hook("pre_execute", 0, TRUE))
               ELSE /\ hooks' = Append(hooks, Hook("pre_execute", 0, TRUE))
                                    \o ExecuteCallbacks(task, {})
                    /\ pc' = "body"
                    /\ UNCHANGED <<exc, escaping, raisedBy, interrupts>>
       \/ \* interrupted while the callbacks run, k of them having returned
          /\ TryRaise(Plain("KeyboardInterrupt"), "on_execute_callback")
          /\ \E bad \in SUBSET (1..task.on_execute_callback),
                k \in 0..task.on_execute_callback :
                /\ k < task.on_execute_callback \/ k = 0
                /\ hooks' = hooks \o pre \o SubSeq(ExecuteCallbacks(task, bad), 1, k)
       \/ /\ \E bad \in SUBSET (1..task.on_execute_callback) :
                hooks' = hooks \o pre \o ExecuteCallbacks(task, bad)
          /\ pc' = "body"
          /\ UNCHANGED <<exc, escaping, raisedBy, interrupts>>
    /\ environ' = EnvironUpdate(environ)
    /\ UNCHANGED <<task, ctx, keysLeft, events, msg, state, error, handler, result,
                   bodyInvoked, deadlineHit, polls, abort, exitCode>>
    /\ UNCHANGED <<request_socket, xcoms, call, entry>>

\* context["task_reschedule_count"] as get_template_context builds it; the key
\* is absent (read as 0) without a context from the server
TaskRescheduleCount(c) == IF c.present THEN c.task_reschedule_count ELSE 0

FirstTryNumberIgnoringRetries(c, t) == c.max_tries + 1

\* first_try_number = max_tries - (task.retries or 0) + 1
FirstTryNumber(c, t) ==
    c.max_tries - (IF t.retries = NoRetries THEN 0 ELSE t.retries) + 1

\* Lines the supervisor answers GetTaskRescheduleStartDate with.
RescheduleReplies == {DateLine(d) : d \in StartDates} \cup {Line("garbage", "", 0)}

\* RuntimeTaskInstance.get_first_reschedule_date(context), the supervisor
\* answering with line: the requests sent, the lines read, whether it raised
\* and the value returned.
GetFirstRescheduleDate(c, t, line, sock) ==
    IF TaskRescheduleCount(c) = 0
    THEN [sent |-> <<>>, read |-> <<>>, raised |-> FALSE, ret |-> "None"]
    ELSE LET got == GetMessage(line, sock) IN
         [sent |-> <<GetTaskRescheduleStartDate(FirstTryNumber(c, t))>>,
          read |-> <<Read(IF got.raised THEN "DecodeError" ELSE got.msg.variant)>>,
          raised |-> got.raised,
          ret |-> IF got.raised THEN "None" ELSE got.msg.start_date]

\* What can cut the task body short asynchronously: an interrupt, and the
\* alarm of the `with timeout(timeout_seconds)` wrapper when one is set.
AsyncRaises(t) ==
    {Plain("KeyboardInterrupt")} \cup
    (IF Truthy(t.execution_timeout) THEN {Plain("AirflowTaskTimeout")} ELSE {})

\* The task body (a sensor in reschedule mode) calls
\* ti.get_first_reschedule_date(context)
BodyGetFirstRescheduleDate ==
    /\ pc = "body"
    /\ task.sensor
    /\ call.op # "get_first_reschedule_date"
    /\ ~(Truthy(task.execution_timeout) /\ AlreadyTimedOut(task.execution_timeout))
    /\ bodyInvoked' = TRUE
    /\ entry' = Execute(ctx)
    /\ \E line \in RescheduleReplies :
         LET r == GetFirstRescheduleDate(ctx, task, line, request_socket) IN
         \/ \* the method runs to its end: returns, or get_message raises
            /\ events' = events \o r.sent \o r.read
            /\ call' = [op |-> "get_first_reschedule_date", interrupted |-> FALSE,
                        raised |-> r.raised, ret |-> r.ret, reply |-> line]
            /\ IF r.raised
               THEN TryRaise(Plain("Exception"), "body")
               ELSE UNCHANGED <<pc, exc, escaping, raisedBy, interrupts>>
         \/ \* the request is written, and the blocking read of the reply is
            \* cut short by an interrupt or by the execution timeout
            /\ r.sent # <<>>
            /\ events' = events \o r.sent
            /\ call' = [op |-> "get_first_reschedule_date", interrupted |-> TRUE,
                        raised |-> TRUE, ret |-> "None", reply |-> line]
            /\ \E e \in AsyncRaises(task) : TryRaise(e, "body")
    /\ UNCHANGED <<task, ctx, keysLeft, msg, state, error, handler, result,
                   deadlineHit, polls, abort, exitCode, request_socket, xcoms, hooks,
                   environ>>

\* _execute_task: the execution_timeout test and the call of the task body
ExecuteBody ==
    /\ pc = "body"
    /\ IF Truthy(task.execution_timeout) /\ AlreadyTimedOut(task.execution_timeout)
       THEN /\ TryRaise(Plain("AirflowTaskTimeout"), "deadline")
            /\ deadlineHit' = TRUE
            /\ UNCHANGED <<bodyInvoked, result, entry>>
       ELSE /\ bodyInvoked' = TRUE
            /\ entry' = Execute(ctx)
            /\ UNCHANGED deadlineHit
            /\ \/ /\ \E r \in Results : result' = r
                  /\ pc' = "post_execute"
                  /\ UNCHANGED <<exc, escaping, raisedBy, interrupts>>
               \/ /\ \E e \in UserRaises : TryRaise(e, "body")
                  /\ UNCHANGED result
    /\ UNCHANGED <<task, ctx, keysLeft, events, msg, state, error, handler, polls,
                   abort, exitCode>>
    /\ UNCHANGED <<request_socket, xcoms, call, hooks, environ>>

\* _execute_task: post-execute hook, return result
ExecutePost ==
    /\ pc = "post_execute"
    /\ \/ /\ task.post_execute_hook
          /\ hooks' = Append(hooks, Hook("post_execute", 0, TRUE))
          /\ \E e \in HookRaises :
               IF HookErrorEscapes(e)
               THEN TryRaise(e, "post_execute")
               ELSE /\ pc' = "push"
                    /\ UNCHANGED <<exc, escaping, raisedBy, interrupts>>
       \/ /\ hooks' = IF task.post_execute_hook
                       THEN Append(hooks, Hook("post_execute", 0, FALSE)) ELSE hooks
          /\ pc' = "push"
          /\ UNCHANGED <<exc, escaping, raisedBy, interrupts>>
    /\ UNCHANGED <<task, ctx, keysLeft, events, msg, state, error, handler, result,
                   bodyInvoked, deadlineHit, polls, abort, exitCode>>
    /\ UNCHANGED <<request_socket, xcoms, call, entry, environ>>

\* is_mappable_value: a list or a mapping (not str/bytes, not a scalar)
IsMappableValue(v) == v.kind \in {"List", "Dict"}

\* isinstance(xcom_value, Mapping)
IsMapping(v) == v.kind = "Dict"

\* `xcom_value = result if ti.task.do_xcom_push else None`
XComValue(t, r) == IF t.do_xcom_push THEN r ELSE NoneVal

PushCheckNoValueNeeded(t, r) ==
    LET v == XComValue(t, r) IN
    IF v = NoneVal THEN "ok"
    ELSE IF t.is_mapped /\ ~IsMappableValue(v) THEN "UnmappableXComTypePushed"
    ELSE IF t.multiple_outputs /\ ~IsMapping(v) THEN "TypeError"
    ELSE IF t.multiple_outputs /\ \E i \in 1..Len(v.items) : ~v.items[i].isStr
         THEN "TypeError"
    ELSE "ok"

PushCheckAnyTypeMappable(t, r) ==
    LET v == XComValue(t, r) IN
    IF v = NoneVal
    THEN IF t.is_mapped THEN "XComForMappingNotPushed" ELSE "ok"
    ELSE IF t.multiple_outputs /\ ~IsMapping(v) THEN "TypeError"
    ELSE IF t.multiple_outputs /\ \E i \in 1..Len(v.items) : ~v.items[i].isStr
         THEN "TypeError"
    ELSE "ok"

PushCheckKeysUnchecked(t, r) ==
    LET v == XComValue(t, r) IN
    IF v = NoneVal
    THEN IF t.is_mapped THEN "XComForMappingNotPushed" ELSE "ok"
    ELSE IF t.is_mapped /\ ~IsMappableValue(v) THEN "UnmappableXComTypePushed"
    ELSE IF t.multiple_outputs /\ ~IsMapping(v) THEN "TypeError"
    ELSE "ok"

\* The check of _push_xcom_if_needed that fails (the error it raises), or "ok".
PushCheck(t, r) ==
    LET v == XComValue(t, r) IN
    IF v = NoneVal
    THEN IF t.is_mapped THEN "XComForMappingNotPushed" ELSE "ok"
    ELSE IF t.is_mapped /\ ~IsMappableValue(v) THEN "UnmappableXComTypePushed"
    ELSE IF t.multiple_outputs /\ ~IsMapping(v) THEN "TypeError"
    ELSE IF t.multiple_outputs /\ \E i \in 1..Len(v.items) : ~v.items[i].isStr
         THEN "TypeError"
    ELSE "ok"

PushListNothing(t, r) == <<>>

PushListAlwaysSplit(t, r) ==
    LET v == XComValue(t, r)
        n == IF t.is_mapped THEN Len(v.items) ELSE -1
        each == [i \in 1..Len(v.items) |-> XComSet(v.items[i].k, -1)]
    IN  IF v = NoneVal THEN <<>>
        ELSE each \o <<XComSet("return_value", n)>>

\* The XCom.set calls _push_xcom_if_needed makes when every check passes.
PushList(t, r) ==
    LET v == XComValue(t, r)
        n == IF t.is_mapped THEN Len(v.items) ELSE -1
        each == [i \in 1..Len(v.items) |-> XComSet(v.items[i].k, -1)]
    IN  IF v = NoneVal THEN <<>>
        ELSE (IF t.multiple_outputs THEN each ELSE <<>>)
                 \o <<XComSet("return_value", n)>>

\* run(): _push_xcom_if_needed(result, ti, log)
PushXComIfNeeded ==
    /\ pc = "push"
    /\ IF PushCheck(task, result) # "ok"
       THEN /\ TryRaise(Plain(PushCheck(task, result)), "push")
            /\ UNCHANGED events
       ELSE \/ /\ PushList(task, result) # <<>>
               /\ \E e \in LibRaises : TryRaise(e, "push")
               /\ UNCHANGED events
            \/ /\ events' = events \o PushList(task, result)
               /\ pc' = "success"
               /\ UNCHANGED <<exc, escaping, raisedBy, interrupts>>
    /\ UNCHANGED <<task, ctx, keysLeft, msg, state, error, handler, result,
                   bodyInvoked, deadlineHit, polls, abort, exitCode>>
    /\ UNCHANGED <<request_socket, xcoms, call, hooks, entry, environ>>

\* run(): `msg, state = _handle_current_task_success(context, ti)`
HandleSuccess ==
    /\ pc = "success"
    /\ msg' = HandleCurrentTaskSuccess.msg
    /\ state' = HandleCurrentTaskSuccess.state
    /\ pc' = "finally"
    /\ UNCHANGED <<task, ctx, keysLeft, events, error, exc, escaping, raisedBy, handler, result,
                   bodyInvoked, deadlineHit, polls, interrupts, abort, exitCode>>
    /\ UNCHANGED <<request_socket, xcoms, call, hooks, entry, environ>>


-----------------------------------------------------------------------------
(* The except clauses of run() *)

\* Leaving an except clause normally with msg/state/error assigned.
Handled(m, st, err) ==
    /\ msg' = m
    /\ state' = st
    /\ error' = err
    /\ handler' = FirstMatch(exc.kind)
    /\ pc' = "finally"

\* except DownstreamTasksSkipped
ExceptDownstreamTasksSkipped ==
    /\ pc = "except"
    /\ Catches(exc.kind, {"DownstreamTasksSkipped"})
    /\ events' = Append(events, Msg("SkipDownstreamTasks", "", TasksToSkip(exc), ""))
    /\ Handled(HandleCurrentTaskSuccess.msg, HandleCurrentTaskSuccess.state, error)
    /\ UNCHANGED <<task, ctx, keysLeft, exc, escaping, raisedBy, result, bodyInvoked,
                   deadlineHit, polls, interrupts, abort, exitCode>>
    /\ UNCHANGED <<request_socket, xcoms, call, hooks, entry, environ>>

\* except DagRunTriggerException: _handle_trigger_dag_run sends TriggerDagRun
ExceptDagRunTrigger ==
    /\ pc = "except"
    /\ Catches(exc.kind, {"DagRunTriggerException"})
    /\ events' = Append(events, Msg("TriggerDagRun", "", <<>>, ""))
    /\ handler' = FirstMatch(exc.kind)
    /\ pc' = "trigger_reply"
    /\ UNCHANGED <<task, ctx, keysLeft, msg, state, error, exc, escaping, raisedBy, result,
                   bodyInvoked, deadlineHit, polls, interrupts, abort, exitCode>>
    /\ UNCHANGED <<request_socket, xcoms, call, hooks, entry, environ>>

\* The outcome of _handle_trigger_dag_run is assigned to msg, state.
TriggerReturn(m, st) ==
    /\ msg' = m
    /\ state' = st
    /\ pc' = "finally"
    /\ UNCHANGED <<escaping, abort, interrupts>>

\* Replies the supervisor gives to TriggerDagRun: an ErrorResponse with the
\* error DAGRUN_ALREADY_EXISTS or with another error, or an OKResponse.
TriggerReplies == {"DAGRUN_ALREADY_EXISTS", "OtherError", "OKResponse"}

IsAlreadyExistsAnyError(reply) == reply \in {"DAGRUN_ALREADY_EXISTS", "OtherError"}

\* isinstance(comms_msg, ErrorResponse) and
\* comms_msg.error == ErrorType.DAGRUN_ALREADY_EXISTS
IsAlreadyExists(reply) == reply = "DAGRUN_ALREADY_EXISTS"

AlreadyExistsOutcomeRetryable(e) ==
    IF e.skip_when_already_exists
    THEN [msg |-> Msg("TaskState", SKIPPED, <<>>, ""), state |-> SKIPPED]
    ELSE HandleCurrentTaskFailed(ctx)

\* _handle_trigger_dag_run: msg, state when the run already exists
AlreadyExistsOutcome(e) ==
    IF e.skip_when_already_exists
    THEN [msg |-> Msg("TaskState", SKIPPED, <<>>, ""), state |-> SKIPPED]
    ELSE [msg |-> Msg("TaskState", FAILED, <<>>, ""), state |-> FAILED]

PollDecisionAllowedFirst(st, e) ==
    IF st \in e.allowed_states THEN "allowed"
    ELSE IF st \in e.failed_states THEN "failed"
    ELSE "continue"

PollDecisionFailedIgnored(st, e) ==
    IF st \in e.allowed_states THEN "allowed" ELSE "continue"

\* One iteration of the polling loop on the state the run reports: the
\* failed_states test comes first, then the allowed_states test
PollDecision(st, e) ==
    IF st \in e.failed_states THEN "failed"
    ELSE IF st \in e.allowed_states THEN "allowed"
    ELSE "continue"

\* _handle_trigger_dag_run: the reply to TriggerDagRun, the trigger_run_id push
TriggerReply ==
    /\ pc = "trigger_reply"
    /\ \E reply \in TriggerReplies \cup {"undecodable"} :
         IF reply = "undecodable"
         THEN /\ events' = Append(events, Read("DecodeError"))
              /\ HandlerRaise(Plain("Exception"), "ReplyDecodeError")
              /\ UNCHANGED <<msg, state>>
         ELSE IF IsAlreadyExists(reply)
         THEN /\ events' = Append(events, Read(reply))
              /\ TriggerReturn(AlreadyExistsOutcome(exc).msg, AlreadyExistsOutcome(exc).state)
         ELSE \/ /\ events' = Append(events, Read(reply))
                 /\ \E e \in LibRaises : HandlerRaise(e, "HandlerError")
                 /\ UNCHANGED <<msg, state>>
              \/ /\ events' = events \o <<Read(reply), XComSet("trigger_run_id", -1)>>
                 /\ IF exc.wait_for_completion
                    THEN /\ pc' = "trigger_poll"
                         /\ UNCHANGED <<msg, state, escaping, abort, interrupts>>
                    ELSE TriggerReturn(HandleCurrentTaskSuccess.msg,
                                       HandleCurrentTaskSuccess.state)
    /\ UNCHANGED <<task, ctx, keysLeft, error, exc, raisedBy, handler, result,
                   bodyInvoked, deadlineHit, polls, exitCode>>
    /\ UNCHANGED <<request_socket, xcoms, call, hooks, entry, environ>>

\* _handle_trigger_dag_run: one iteration of the `while True` polling loop
TriggerPoll ==
    /\ pc = "trigger_poll"
    /\ \E reply \in DagRunStates \cup {"undecodable"} :
         /\ (reply \in DagRunStates /\ PollDecision(reply, exc) = "continue")
               => polls < MaxPolls
         /\ polls' = polls + 1
         /\ IF reply = "undecodable"
            THEN /\ events' = events \o <<Msg("GetDagRunState", "", <<>>, ""),
                                          Read("DecodeError")>>
                 /\ HandlerRaise(Plain("Exception"), "ReplyDecodeError")
                 /\ UNCHANGED <<msg, state>>
            ELSE /\ events' = events \o <<Msg("GetDagRunState", "", <<>>, ""),
                                          Read(reply)>>
                 /\ IF PollDecision(reply, exc) = "failed"
                    THEN TriggerReturn(Msg("TaskState", FAILED, <<>>, ""), FAILED)
                    ELSE IF PollDecision(reply, exc) = "allowed"
                    THEN TriggerReturn(HandleCurrentTaskSuccess.msg,
                                       HandleCurrentTaskSuccess.state)
                    ELSE UNCHANGED <<pc, msg, state, escaping, abort, interrupts>>
    /\ UNCHANGED <<task, ctx, keysLeft, error, exc, raisedBy, handler, result,
                   bodyInvoked, deadlineHit, exitCode>>
    /\ UNCHANGED <<request_socket, xcoms, call, hooks, entry, environ>>

\* except TaskDeferred: defer.trigger.serialize(), then DeferTask
ExceptTaskDeferred ==
    /\ pc = "except"
    /\ Catches(exc.kind, {"TaskDeferred"})
    /\ \/ /\ \E e \in LibRaises : HandlerRaise(e, "HandlerError")
          /\ handler' = FirstMatch(exc.kind)
          /\ UNCHANGED <<msg, state, error>>
       \/ /\ Handled(Msg("DeferTask", "", <<>>, ""), DEFERRED, error)
          /\ UNCHANGED <<escaping, abort, interrupts>>
    /\ UNCHANGED <<task, ctx, keysLeft, events, exc, raisedBy, result, bodyInvoked,
                   deadlineHit, polls, exitCode>>
    /\ UNCHANGED <<request_socket, xcoms, call, hooks, entry, environ>>

\* except AirflowSkipException
ExceptSkip ==
    /\ pc = "except"
    /\ Catches(exc.kind, {"AirflowSkipException"})
    /\ Handled(Msg("TaskState", SKIPPED, <<>>, ""), SKIPPED, error)
    /\ UNCHANGED <<task, ctx, keysLeft, events, exc, escaping, raisedBy, result, bodyInvoked,
                   deadlineHit, polls, interrupts, abort, exitCode>>
    /\ UNCHANGED <<request_socket, xcoms, call, hooks, entry, environ>>

\* except AirflowRescheduleException
ExceptReschedule ==
    /\ pc = "except"
    /\ Catches(exc.kind, {"AirflowRescheduleException"})
    /\ Handled(Msg("RescheduleTask", "", <<>>, ""), UP_FOR_RESCHEDULE, error)
    /\ UNCHANGED <<task, ctx, keysLeft, events, exc, escaping, raisedBy, result, bodyInvoked,
                   deadlineHit, polls, interrupts, abort, exitCode>>
    /\ UNCHANGED <<request_socket, xcoms, call, hooks, entry, environ>>

\* except (AirflowFailException, AirflowSensorTimeout)
ExceptFail ==
    /\ pc = "except"
    /\ Catches(exc.kind, {"AirflowFailException", "AirflowSensorTimeout"})
    /\ Handled(Msg("TaskState", FAILED, <<>>, ""), FAILED, exc.kind)
    /\ UNCHANGED <<task, ctx, keysLeft, events, exc, escaping, raisedBy, result, bodyInvoked,
                   deadlineHit, polls, interrupts, abort, exitCode>>
    /\ UNCHANGED <<request_socket, xcoms, call, hooks, entry, environ>>

\* except (AirflowTaskTimeout, AirflowException)
ExceptRetryable ==
    /\ pc = "except"
    /\ Catches(exc.kind, {"AirflowTaskTimeout", "AirflowException"})
    /\ Handled(HandleCurrentTaskFailed(ctx).msg, HandleCurrentTaskFailed(ctx).state,
               exc.kind)
    /\ UNCHANGED <<task, ctx, keysLeft, events, exc, escaping, raisedBy, result, bodyInvoked,
                   deadlineHit, polls, interrupts, abort, exitCode>>
    /\ UNCHANGED <<request_socket, xcoms, call, hooks, entry, environ>>

\* except AirflowTaskTerminated
ExceptTerminated ==
    /\ pc = "except"
    /\ Catches(exc.kind, {"AirflowTaskTerminated"})
    /\ Handled(Msg("TaskState", FAILED, <<>>, ""), FAILED, exc.kind)
    /\ UNCHANGED <<task, ctx, keysLeft, events, exc, escaping, raisedBy, result, bodyInvoked,
                   deadlineHit, polls, interrupts, abort, exitCode>>
    /\ UNCHANGED <<request_socket, xcoms, call, hooks, entry, environ>>

\* except SystemExit
ExceptSystemExit ==
    /\ pc = "except"
    /\ Catches(exc.kind, {"SystemExit"})
    /\ Handled(HandleCurrentTaskFailed(ctx).msg, HandleCurrentTaskFailed(ctx).state,
               exc.kind)
    /\ UNCHANGED <<task, ctx, keysLeft, events, exc, escaping, raisedBy, result, bodyInvoked,
                   deadlineHit, polls, interrupts, abort, exitCode>>
    /\ UNCHANGED <<request_socket, xcoms, call, hooks, entry, environ>>

\* except BaseException
ExceptBaseException ==
    /\ pc = "except"
    /\ Catches(exc.kind, {"BaseException"})
    /\ Handled(HandleCurrentTaskFailed(ctx).msg, HandleCurrentTaskFailed(ctx).state,
               exc.kind)
    /\ UNCHANGED <<task, ctx, keysLeft, events, exc, escaping, raisedBy, result, bodyInvoked,
                   deadlineHit, polls, interrupts, abort, exitCode>>
    /\ UNCHANGED <<request_socket, xcoms, call, hooks, entry, environ>>

SendInFinallyNever(m) == FALSE

\* `if msg:` in run()'s finally block
SendInFinally(m) == m # NoMsg

\* run(): the finally block, then `return state, msg, error` or the
\* propagation of an exception raised inside an except clause to main()
Finally ==
    /\ pc \in {"finally", "finally_raise"}
    /\ events' = IF SendInFinally(msg) THEN Append(events, msg) ELSE events
    /\ IF pc = "finally_raise"
       THEN Exit(MainExitCode(escaping), abort)
       ELSE /\ pc' = "finalize"
            /\ UNCHANGED <<exitCode, abort>>
    /\ UNCHANGED <<task, ctx, keysLeft, msg, state, error, exc, escaping, raisedBy, handler,
                   result, bodyInvoked, deadlineHit, polls, interrupts>>
    /\ UNCHANGED <<request_socket, xcoms, call, hooks, entry, environ>>

CallbackKindForRetryAsFailure(st) ==
    CASE st = SUCCESS -> "on_success_callback"
      [] st = SKIPPED -> "on_skipped_callback"
      [] st \in {UP_FOR_RETRY, FAILED} -> "on_failure_callback"
      [] OTHER -> "None"

\* The callback list finalize runs for a state ("None": no list).
CallbackKindFor(st) ==
    CASE st = SUCCESS -> "on_success_callback"
      [] st = SKIPPED -> "on_skipped_callback"
      [] st = UP_FOR_RETRY -> "on_retry_callback"
      [] st = FAILED -> "on_failure_callback"
      [] OTHER -> "None"

\* The listener notification finalize makes for a state ("None": none).
ListenerFor(st) ==
    CASE st = SUCCESS -> "on_task_instance_success"
      [] st \in {UP_FOR_RETRY, FAILED} -> "on_task_instance_failed"
      [] OTHER -> "None"

\* `if error and task.email_on_retry and task.email` under UP_FOR_RETRY,
\* `if error and task.email_on_failure and task.email` under FAILED
SendsEmail(t, st, err) ==
    /\ err # "None"
    /\ \/ st = UP_FOR_RETRY /\ t.email_on_retry
       \/ st = FAILED /\ t.email_on_failure
    /\ t.email

\* What sending can do: the message goes out; the first send_email raises and
\* the fallback goes out; both raise.
MailOutcomes == {"sent", "fallback", "fail"}

\* _send_task_error_email: send_email(to, subject, content), and on an
\* Exception send_email(to, subject, err), which is not guarded
SendTaskErrorEmail(how) ==
    IF how = "sent" THEN <<Hook("send_email", 1, FALSE)>>
    ELSE <<Hook("send_email", 1, TRUE), Hook("send_email", 2, how = "fail")>>

\* What the code finalize calls does in one invocation: the first extra-link
\* push raises, the callbacks that raise, whether the listener notification,
\* and the before_stopping notification raise, and what sending mail does.
FinalizeInputs ==
    [linkFails : BOOLEAN, bad : SUBSET (1..MaxCallbacks), listener : BOOLEAN,
     mail : MailOutcomes, stopping : BOOLEAN]

\* The inputs that can differ for task t in state st with error err.
FinalizeInputsFor(t, st, err) ==
    {in \in FinalizeInputs :
        /\ in.linkFails => t.operator_extra_links > 0
        /\ in.bad \subseteq (IF CallbackKindFor(st) = "None" THEN {}
                              ELSE 1..t[CallbackKindFor(st)])
        /\ in.listener => (t.has_listeners /\ ListenerFor(st) # "None")
        /\ in.stopping => t.has_listeners
        /\ in.mail # "sent" => SendsEmail(t, st, err)}

\* finalize(): the branch taken on state -- callbacks, listener, e-mail
FinalizeDispatch(t, st, err, in) ==
    (IF CallbackKindFor(st) = "None" THEN <<>>
     ELSE RunTaskStateChangeCallbacks(t, CallbackKindFor(st), in.bad))
    \o (IF ListenerFor(st) = "None" THEN <<>>
        ELSE <<Hook(ListenerFor(st), 0, in.listener)>>)
    \o (IF SendsEmail(t, st, err) THEN SendTaskErrorEmail(in.mail) ELSE <<>>)

\* finalize(ti, state, context, log, error): the requests it sends, the hooks
\* it runs, and whether an Exception escapes it
FinalizeRun(t, st, err, in) ==
    LET links == [i \in 1..t.operator_extra_links |->
                     Msg("XCom._set_xcom_in_db", "", <<>>, "extra_link")]
        rtif == IF t.overwrite_rtif_after_execution /\ t.template_fields
                THEN <<Msg("SetRenderedFields", "", <<>>, "")>> ELSE <<>>
    IN  IF in.linkFails
        THEN [events |-> <<>>, hooks |-> <<>>, raised |-> TRUE]
        ELSE IF SendsEmail(t, st, err) /\ in.mail = "fail"
        THEN [events |-> links \o rtif, hooks |-> FinalizeDispatch(t, st, err, in),
              raised |-> TRUE]
        ELSE [events |-> links \o rtif,
              hooks |-> FinalizeDispatch(t, st, err, in)
                            \o <<Hook("before_stopping", 0, in.stopping)>>,
              raised |-> FALSE]

\* main(): finalize(ti, state, context, log, error), then the process ends
Finalize ==
    /\ pc = "finalize"
    /\ \E in \in FinalizeInputsFor(task, state, error) :
         LET r == FinalizeRun(task, state, error, in) IN
         \/ /\ ~r.raised
            /\ events' = events \o r.events
            /\ hooks' = hooks \o r.hooks
            /\ Exit(0, "None")
            /\ UNCHANGED interrupts
         \/ /\ r.raised
            /\ events' = events \o r.events
            /\ hooks' = hooks \o r.hooks
            /\ Exit(MainExitCode("Exception"), "FinalizeError")
            /\ UNCHANGED interrupts
         \/ \* interrupted, k of the hooks having been run
            \E k \in 0..Len(r.hooks) :
              /\ k < Len(r.hooks) \/ k = 0
              /\ events' = IF k = 0 THEN events ELSE events \o r.events
              /\ hooks' = hooks \o SubSeq(r.hooks, 1, k)
              /\ Exit(MainExitCode("KeyboardInterrupt"), "FinalizeInterrupt")
              /\ interrupts' = interrupts \cup {"finalize"}
    /\ UNCHANGED <<task, ctx, keysLeft, msg, state, error, exc, escaping, raisedBy,
                   handler, result, bodyInvoked, deadlineHit, polls>>
    /\ UNCHANGED <<request_socket, xcoms, call, entry, environ>>

Next ==
    \/ Startup
    \/ ClearXCom
    \/ Prepare
    \/ ExecutePre
    \/ BodyGetFirstRescheduleDate
    \/ ExecuteBody
    \/ ExecutePost
    \/ PushXComIfNeeded
    \/ HandleSuccess
    \/ ExceptDownstreamTasksSkipped
    \/ ExceptDagRunTrigger
    \/ TriggerReply
    \/ TriggerPoll
    \/ ExceptTaskDeferred
    \/ ExceptSkip
    \/ ExceptReschedule
    \/ ExceptFail
    \/ ExceptRetryable
    \/ ExceptTerminated
    \/ ExceptSystemExit
    \/ ExceptBaseException
    \/ Finally
    \/ Finalize

Spec == Init /\ [][Next]_vars

\* The attempts of the base task without stale keys: the ones in which the
\* body may raise DagRunTriggerException and the worker wait for the run.
FairInit ==
    /\ Init
    /\ task = BaseTask
    /\ ctx \in PlainContexts

\* The steps of such an attempt (it clears no key and is no sensor).
FairNext ==
    \/ Startup
    \/ Prepare
    \/ ExecutePre
    \/ ExecuteBody
    \/ ExecutePost
    \/ PushXComIfNeeded
    \/ HandleSuccess
    \/ ExceptDownstreamTasksSkipped
    \/ ExceptDagRunTrigger
    \/ TriggerReply
    \/ TriggerPoll
    \/ ExceptTaskDeferred
    \/ ExceptSkip
    \/ ExceptReschedule
    \/ ExceptFail
    \/ ExceptRetryable
    \/ ExceptTerminated
    \/ ExceptSystemExit
    \/ ExceptBaseException
    \/ Finally
    \/ Finalize

\* The worker is one running process: while a step of it is possible (the
\* supervisor answering each request it waits on), a step is eventually taken.
SpecFair == FairInit /\ [][FairNext]_vars /\ WF_vars(FairNext)


-----------------------------------------------------------------------------
(* The channel on its own: a CommsDecoder as main() constructs it, called *)
(* in any order on any input                                              *)

\* The locals of run() and main(), which the channel does not touch.
runVars ==
    <<task, ctx, keysLeft, msg, state, error, exc, escaping, raisedBy, handler,
      result, bodyInvoked, deadlineHit, polls, interrupts, abort, exitCode, hooks,
      entry, environ>>

\* The variables of the worker's life cycle.
lifeVars == <<pc, runVars>>

\* Requests handed to send_request.
Requests ==
    {Msg("SetRenderedFields", "", <<>>, ""), Msg("SucceedTask", "", <<>>, ""),
     Msg("TaskState", FAILED, <<>>, "")}

\* CommsDecoder(input=sys.stdin): request_socket defaults to None
CommsInit ==
    /\ pc = "comms"
    /\ task = BaseTask
    /\ ctx = NoContext
    /\ Fresh
    /\ request_socket = 0
    /\ xcoms = {}
    /\ call = NoCall

\* SUPERVISOR_COMMS.get_message() on the next line of the input
CallGetMessage ==
    /\ pc = "comms"
    /\ \E line \in Lines :
         /\ call' = GetMessageCall(line, request_socket)
         /\ request_socket' = GetMessage(line, request_socket).request_socket
    /\ UNCHANGED <<lifeVars, events, xcoms>>

\* SUPERVISOR_COMMS.send_request(log, msg)
CallSendRequest ==
    /\ pc = "comms"
    /\ Len(events) < MaxWrites
    /\ \E m \in Requests :
         /\ call' = [op |-> "send_request", request |-> m,
                     socketBefore |-> request_socket,
                     raised |-> SendRequest(m, request_socket).raised]
         /\ events' = events \o SendRequest(m, request_socket).written
    /\ UNCHANGED <<lifeVars, request_socket, xcoms>>

CommsNext ==
    \/ CallGetMessage
    \/ CallSendRequest

SpecComms == CommsInit /\ [][CommsNext]_vars

-----------------------------------------------------------------------------
(* RuntimeTaskInstance.xcom_pull and xcom_push against the XCom backend *)

\* ti.map_index of an instance that is not mapped
Unmapped == -1
\* map_index=None as handed to XCom.get_one
NoneIndex == -2

\* The identity of a task instance.
TI(dag, run, taskId, mapIndex) ==
    [dag_id |-> dag, run_id |-> run, task_id |-> taskId, map_index |-> mapIndex]

\* Instances that push, and the ones that call xcom_pull.
Instances ==
    {TI("d1", "r1", "t1", Unmapped), TI("d1", "r1", "t1", 0),
     TI("d1", "r1", "t2", Unmapped)}
Callers == {TI("d1", "r1", "t1", Unmapped), TI("d1", "r1", "t1", 0)}

PullKeys == {"return_value", "k1"}
\* Values stored (none of them None) and the `default` argument.
Values == {"v1", "v2"}
Defaults == {"None", "dflt"}

\* The task_ids argument: None, one str, or an iterable of str.
TaskIdsArg(kind, one, many) == [kind |-> kind, str |-> one, list |-> many]
TaskIdsArgs ==
    {TaskIdsArg("None", "", <<>>), TaskIdsArg("str", "t2", <<>>),
     TaskIdsArg("list", "", <<"t1", "t2">>), TaskIdsArg("list", "", <<"t2", "t1">>),
     TaskIdsArg("list", "", <<"t2">>)}

\* The map_indexes argument: NOTSET, None, one int, an iterable of int, or a
\* value of another type.
MapIndexesArg(kind, one, many) == [kind |-> kind, int |-> one, list |-> many]
MapIndexesArgs ==
    {MapIndexesArg("NotSet", 0, <<>>), MapIndexesArg("None", 0, <<>>),
     MapIndexesArg("int", 0, <<>>), MapIndexesArg("list", 0, <<0, Unmapped>>),
     MapIndexesArg("list", 0, <<>>), MapIndexesArg("other", 0, <<>>)}

\* The arguments of one xcom_pull call; "None" is an omitted dag_id / run_id.
\* Explored: every pair of filters with the other arguments omitted, and every
\* choice of the other arguments with no filter or with two task ids.
PullArgs ==
    [task_ids : TaskIdsArgs, map_indexes : MapIndexesArgs, dag_id : {"None"},
     run_id : {"None"}, key : {"return_value"}, default : {"None"}]
    \cup [task_ids : {TaskIdsArg("None", "", <<>>), TaskIdsArg("list", "", <<"t2", "t1">>)},
          map_indexes : {MapIndexesArg("NotSet", 0, <<>>)}, dag_id : {"None", "d2"},
          run_id : {"None", "r1"}, key : PullKeys, default : Defaults]

\* The composite key of an XCom.
Coords(dag, run, taskId, mapIndex, key) ==
    [dag_id |-> dag, run_id |-> run, task_id |-> taskId, map_index |-> mapIndex,
     key |-> key]

\* XCom.set: at most one value per composite key, a new one replaces the old
XComBackendSet(store, c, v) ==
    {e \in store : e.coords # c} \cup {[coords |-> c, value |-> v]}

\* XCom.get_one: the value stored at the composite key, None if there is none
XComGetOne(store, c) ==
    IF \E e \in store : e.coords = c
    THEN (CHOOSE e \in store : e.coords = c).value
    ELSE "None"

\* _xcom_push(ti, key, value): XCom.set at the instance's own coordinates
XComPush(self, key, v, store) ==
    XComBackendSet(store,
                   Coords(self.dag_id, self.run_id, self.task_id, self.map_index, key), v)

\* task_ids: None -> [self.task_id]; a str -> [task_ids]; else the iterable
TaskIdList(self, a) ==
    IF a.kind = "None" THEN <<self.task_id>>
    ELSE IF a.kind = "str" THEN <<a.str>>
    ELSE a.list

MapIndexListUnmapped(self, a) ==
    IF a.kind = "NotSet" THEN <<Unmapped>>
    ELSE IF a.kind = "int" THEN <<a.int>>
    ELSE IF a.kind = "None" THEN <<NoneIndex>>
    ELSE a.list

\* map_indexes_iterable: NOTSET -> [self.map_index]; an int or None ->
\* [map_indexes]; else the iterable
MapIndexList(self, a) ==
    IF a.kind = "NotSet" THEN <<self.map_index>>
    ELSE IF a.kind = "int" THEN <<a.int>>
    ELSE IF a.kind = "None" THEN <<NoneIndex>>
    ELSE a.list

ProductSecondMajor(ts, ms) ==
    [i \in 1..(Len(ts) * Len(ms)) |->
        <<ts[((i - 1) % Len(ts)) + 1], ms[((i - 1) \div Len(ts)) + 1]>>]

\* itertools.product(task_ids, map_indexes_iterable): the first list is major
Product(ts, ms) ==
    [i \in 1..(Len(ts) * Len(ms)) |->
        <<ts[((i - 1) \div Len(ms)) + 1], ms[((i - 1) % Len(ms)) + 1]>>]

\* RuntimeTaskInstance.xcom_pull: whether it raised (TypeError), the
\* XCom.get_one calls made in order, and the value returned: values[1] itself
\* when bare, the list values otherwise.
XComPull(self, a, store) ==
    LET dag == IF a.dag_id = "None" THEN self.dag_id ELSE a.dag_id
        run == IF a.run_id = "None" THEN self.run_id ELSE a.run_id
        pairs == Product(TaskIdList(self, a.task_ids), MapIndexList(self, a.map_indexes))
        lookups == [i \in DOMAIN pairs |-> Coords(dag, run, pairs[i][1], pairs[i][2], a.key)]
        xs == [i \in DOMAIN pairs |->
                  IF XComGetOne(store, lookups[i]) = "None"
                  THEN a.default ELSE XComGetOne(store, lookups[i])]
    IN  IF a.map_indexes.kind = "other"
        THEN [raised |-> TRUE, lookups |-> <<>>, bare |-> FALSE, values |-> <<>>]
        ELSE [raised |-> FALSE, lookups |-> lookups, bare |-> Len(xs) = 1, values |-> xs]

\* An XCom backend holding nothing yet
XComInit ==
    /\ pc = "xcom"
    /\ task = BaseTask
    /\ ctx = NoContext
    /\ Fresh
    /\ request_socket = SupervisorFd
    /\ xcoms = {}
    /\ call = NoCall

\* ti.xcom_push(key, value) by one of the instances
CallXComPush ==
    /\ pc = "xcom"
    /\ \E self \in Instances, key \in PullKeys, v \in Values :
         /\ Cardinality(XComPush(self, key, v, xcoms)) <= MaxPushes
         /\ xcoms' = XComPush(self, key, v, xcoms)
         /\ call' = [op |-> "xcom_push", self |-> self, key |-> key, value |-> v]
    /\ UNCHANGED <<lifeVars, events, request_socket>>

\* ti.xcom_pull(task_ids, dag_id, key, map_indexes=, default=, run_id=), the
\* call under study, once the instances have pushed
CallXComPull ==
    /\ pc = "xcom"
    /\ pc' = "pulled"
    /\ \E self \in Callers, a \in PullArgs :
         LET r == XComPull(self, a, xcoms) IN
         call' = [op |-> "xcom_pull", self |-> self, args |-> a, raised |-> r.raised,
                  lookups |-> r.lookups, bare |-> r.bare, values |-> r.values]
    /\ UNCHANGED <<runVars, events, request_socket, xcoms>>

XComNext ==
    \/ CallXComPush
    \/ CallXComPull

SpecXCom == XComInit /\ [][XComNext]_vars

-----------------------------------------------------------------------------
(* Vocabulary of the properties *)

\* The final outcome messages written so far, in order.
OutcomesSent == SelectSeq(events, LAMBDA m : m.type \in OutcomeTypes)

\* Positions of the logged events of one type.
Positions(type) == {i \in 1..Len(events) : events[i].type = type}

Exited == pc = "exited"

\* startup() returned: the pipeline reached run().
StartupCompleted ==
    /\ pc # "startup"
    /\ abort \notin {"StartupDecodeError", "StartupError", "ResolutionError",
                     "StartupInterrupt", "ListenerError"}

\* run() returned to main() (its finally block has run, nothing escaped).
RunReturned ==
    \/ pc = "finalize"
    \/ pc = "exited" /\ abort \in {"None", "FinalizeInterrupt", "FinalizeError"}

\* An except clause (or the success path) has assigned msg and state.
OutcomeDecided == pc = "finally" \/ RunReturned

\* The retry-or-fail rule as the specification words it.
RetryAllowed == ctx.present /\ ctx.should_retry
RetryOrFailState == IF RetryAllowed THEN UP_FOR_RETRY ELSE FAILED
RetryOrFailMsg ==
    IF RetryAllowed THEN Msg("RetryTask", "", <<>>, "")
    ELSE Msg("TaskState", FAILED, <<>>, "")

-----------------------------------------------------------------------------
(* C1 *)

\* C1: every attempt that completed startup has, when the process has exited,
\* sent exactly one final outcome message -- never zero, never more than one.
C1_ExactlyOneOutcome ==
    (Exited /\ StartupCompleted /\ interrupts = {}) => Len(OutcomesSent) = 1

(* C2 *)

\* C2: after startup, only an undecodable channel message may end the process
\* without a final outcome message; any other error (here: one raised while a
\* skip-downstream, trigger-run or defer signal is being handled) still leaves
\* exactly one outcome message sent before the process exits.
C2_OnlyProtocolErrorsSkipOutcome ==
    (Exited /\ StartupCompleted /\ interrupts = {} /\ abort # "ReplyDecodeError")
        => Len(OutcomesSent) = 1

(* C3 *)

RetryableKinds ==
    {"AirflowTaskTimeout", "AirflowException", "SystemExit", "Exception",
     "KeyboardInterrupt"}

C4_FailNeverRetries ==
    (raisedBy = "body" /\ exc.kind \in {"AirflowFailException", "AirflowSensorTimeout"})
        => /\ Positions("RetryTask") = {}
           /\ OutcomeDecided
                => (state = FAILED /\ msg = Msg("TaskState", FAILED, <<>>, ""))
           /\ RunReturned => OutcomesSent = <<Msg("TaskState", FAILED, <<>>, "")>>

C4_Witness ==
    /\ pc = "finalize"
    /\ raisedBy = "body"
    /\ exc.kind = "AirflowFailException"
    /\ ctx.present /\ ctx.should_retry
    /\ state = FAILED
    /\ Len(OutcomesSent) = 1

(* C5 *)

\* Rank of the rule of the priority list a raised condition falls under:
\* 1 skip-downstream, 2 trigger-run, 3 defer, 4 skip, 5 reschedule,
\* 6 fail-without-retry / sensor-timeout, 7 retryable error, 8 anything else.
PriorityRule(kind) ==
    CASE kind = "DownstreamTasksSkipped" -> 1
      [] kind = "DagRunTriggerException" -> 2
      [] kind = "TaskDeferred" -> 3
      [] kind = "AirflowSkipException" -> 4
      [] kind = "AirflowRescheduleException" -> 5
      [] kind \in {"AirflowFailException", "AirflowSensorTimeout"} -> 6
      [] kind \in {"AirflowTaskTimeout", "AirflowException"} -> 7
      [] OTHER -> 8

\* The outcome each rule prescribes (rule 2 hands over to the trigger protocol).
RuleOutcomes(rule) ==
    CASE rule = 1 -> {SUCCESS}
      [] rule = 2 -> {SUCCESS, SKIPPED, FAILED}
      [] rule = 3 -> {DEFERRED}
      [] rule = 4 -> {SKIPPED}
      [] rule = 5 -> {UP_FOR_RESCHEDULE}
      [] rule = 6 -> {FAILED}
      [] OTHER -> {RetryOrFailState}

BodyReturned == bodyInvoked /\ raisedBy # "body"

\* The task is configured to push and the body produced a value.
ConfiguredToPush == task.do_xcom_push /\ result.kind # "None"

\* What C6 promises once the body has returned.
C6_Promise ==
    IF raisedBy = "push"
    THEN /\ Positions("SucceedTask") = {}
         /\ state = RetryOrFailState
    ELSE /\ state = SUCCESS
         /\ RunReturned => OutcomesSent = <<Msg("SucceedTask", "", <<>>, "")>>
         /\ ConfiguredToPush =>
                \E i \in Positions("XCom.set") : events[i].key = "return_value"
         /\ \A i \in Positions("XCom.set"), j \in Positions("SucceedTask") : i < j

C7_SkipDownstreamThenSuccess ==
    (RunReturned /\ raisedBy = "body" /\ exc.kind = "DownstreamTasksSkipped")
        => /\ state = SUCCESS
           /\ OutcomesSent = <<Msg("SucceedTask", "", <<>>, "")>>
           /\ Cardinality(Positions("SkipDownstreamTasks")) = 1
           /\ \A i \in Positions("SkipDownstreamTasks") :
                /\ \A j \in Positions("SucceedTask") : i < j
                /\ IF exc.tasksIsList
                   THEN events[i].tasks = exc.tasks
                   ELSE Len(events[i].tasks) = 1 /\ events[i].tasks[1] = exc.bare

C7_Witness ==
    /\ pc = "finalize"
    /\ raisedBy = "body"
    /\ exc.kind = "DownstreamTasksSkipped"
    /\ ~exc.tasksIsList
    /\ \E i \in Positions("SkipDownstreamTasks") : events[i].tasks = <<"t1">>
    /\ state = SUCCESS

(* C8 *)

\* C8 as stated: if preparation fails (raises an error; a skip signal is not
\* counted as a failure), the outcome is FAILED whatever the retry policy is,
\* and the task body is never executed.
C8_Original ==
    (OutcomeDecided /\ raisedBy = "prepare" /\ exc.kind # "AirflowSkipException")
        => (state = FAILED /\ ~bodyInvoked)

\* C8 amended: if preparation raises, the task body is never executed and the
\* raised condition is mapped to an outcome exactly as one raised by the body
\* is; a generic error gives UP_FOR_RETRY when a retry is allowed and FAILED
\* otherwise.
C8_PrepareFailureHandledLikeBody ==
    raisedBy = "prepare"
        => /\ ~bodyInvoked
           /\ OutcomeDecided =>
                /\ state \in RuleOutcomes(PriorityRule(exc.kind))
                /\ exc.kind \in RetryableKinds =>
                        (state = RetryOrFailState /\ msg = RetryOrFailMsg)

C8_Witness ==
    /\ pc = "finalize"
    /\ raisedBy = "prepare"
    /\ exc.kind = "Exception"
    /\ state = UP_FOR_RETRY
    /\ ~bodyInvoked

(* C9 *)

\* Steps of run() that come before the execution deadline is examined.
BeforeDeadlineCheck == {"clear", "prepare", "pre_execute", "on_execute_callback"}

\* C9: with an execution deadline configured whose budget is <= 0 (exactly
\* zero included), the task body is never invoked, and once the deadline is
\* examined the outcome is the timeout one: UP_FOR_RETRY if a retry is
\* allowed, else FAILED.
C9_ElapsedDeadlineSkipsBody ==
    (task.execution_timeout # NoTimeout /\ task.execution_timeout <= 0)
        => /\ ~bodyInvoked
           /\ (OutcomeDecided /\ raisedBy \notin BeforeDeadlineCheck)
                => (deadlineHit /\ state = RetryOrFailState)

(* C10 *)

\* Phases of main() that lie outside run()'s try block.
OutsideTry == {"startup", "handler", "finalize"}

\* C10 as stated: a KeyboardInterrupt arriving in any phase makes the worker
\* exit with code 2.
C10_Original == (Exited /\ interrupts # {}) => exitCode = 2

\* C10 amended: a KeyboardInterrupt arriving during startup, inside an except
\* clause of run(), or during finalize makes the worker exit with code 2; one
\* arriving inside run()'s try block (clearing, preparation, hooks, the task
\* body, pushing results) is caught by the catch-all clause, reported with the
\* retry-or-fail outcome, and the worker goes on to finalize: exit code 0 when
\* finalize completes.
C10_InterruptExitCode ==
    Exited =>
        /\ interrupts \cap OutsideTry # {} => exitCode = 2
        /\ (interrupts # {} /\ interrupts \cap OutsideTry = {})
              => /\ exc.kind = "KeyboardInterrupt"
                 /\ state = RetryOrFailState
                 /\ OutcomesSent = <<RetryOrFailMsg>>
                 /\ exitCode # 2
                 /\ abort = "None" => exitCode = 0

C10_Witness ==
    /\ Exited
    /\ interrupts = {"body"}
    /\ exitCode = 0
    /\ Len(OutcomesSent) = 1

(* C11 *)

\* Why main() can leave the pipeline through `except Exception`.
ErrorCauses ==
    {"StartupDecodeError", "StartupError", "ResolutionError", "ReplyDecodeError",
     "HandlerError", "FinalizeError"}

\* finalize() was entered and returned.
FinalizeCompleted == Exited /\ RunReturned /\ abort = "None"

\* C11 as stated: whenever the final outcome has been reported and finalize
\* has been entered, the worker ends with exit code 0.
C11_Original ==
    (Exited /\ RunReturned /\ Len(OutcomesSent) = 1 /\ interrupts \cap OutsideTry = {})
        => exitCode = 0

\* C11 amended: whenever the final outcome has been reported and finalize has
\* run to completion, the worker ends with exit code 0 whatever the outcome
\* is; exit code 1 is produced only by an error that reaches main() (one
\* raised by finalize included) and exit code 2 only by an interrupt.
C11_ExitCodes ==
    Exited =>
        /\ exitCode \in {0, 1, 2}
        /\ FinalizeCompleted => (exitCode = 0 /\ OutcomesSent = <<msg>>)
        /\ exitCode = 0 => FinalizeCompleted
        /\ exitCode = 1 =>
              /\ abort \in ErrorCauses
              /\ interrupts \cap OutsideTry = {}
              /\ escaping \in {"None", "Exception"}
        /\ exitCode = 2 => interrupts \cap OutsideTry # {}

C11_Witness ==
    /\ FinalizeCompleted
    /\ exitCode = 0
    /\ state = FAILED
    /\ OutcomesSent = <<Msg("TaskState", FAILED, <<>>, "")>>

(* C12 *)

\* C12: if the first message startup receives is not a StartupDetails (and no
\* interrupt arrives), startup fails fatally: the task is never resolved or
\* run, no outcome message (no message at all) is sent, finalize is not run
\* and the process exits with code 1.
C12_NonStartupFirstMessageFatal ==
    (call.op = "get_message" /\ ~call.raised /\ call.line.variant # "StartupDetails"
        /\ interrupts = {})
        => /\ Exited
           /\ exitCode = 1
           /\ abort = "StartupError"
           /\ ~StartupCompleted
           /\ ~RunReturned
           /\ ~bodyInvoked
           /\ events = <<>>
           /\ msg = NoMsg
           /\ state = NoState

C12_Witness ==
    /\ Exited
    /\ call.op = "get_message"
    /\ call.line = Line("json", "ErrorResponse", 0)
    /\ call.msg = Message("ErrorResponse", 0)
    /\ exitCode = 1
    /\ events = <<>>

(* C13 *)

\* C13: get_message on a record that decodes into no known variant (the empty
\* record of end of input included) raises the decode error to its caller
\* after logging it; it returns no message for such a record, and the error is
\* not swallowed.
C13_DecodeErrorRaised ==
    (call.op = "get_message" /\ call.line \in BadLines)
        => /\ call.raised
           /\ call.logged
           /\ call.msg = NoMessage
           /\ request_socket = call.socketBefore

C13_Witness ==
    /\ call.op = "get_message"
    /\ call.line = Line("", "", 0)
    /\ call.raised
    /\ call.logged
    /\ request_socket = SupervisorFd

(* C15 *)

\* The line is a StartupDetails that carries a descriptor reference.
StartupWithDescriptor(line) ==
    line.text = "json" /\ line.variant = "StartupDetails" /\ line.requests_fd > 0

\* C15: the outbound descriptor is unset initially and becomes valid only when
\* get_message observes a StartupDetails carrying a descriptor reference; until
\* then send_request cannot succeed (it raises and nothing is written), and
\* receiving any other message leaves the descriptor unchanged.
C15_DescriptorSetOnlyByStartupDetails ==
    /\ call.op = "None" => request_socket = 0
    /\ request_socket = 0 => events = <<>>
    /\ call.op = "get_message" =>
          IF StartupWithDescriptor(call.line)
          THEN request_socket = call.line.requests_fd /\ request_socket > 0
          ELSE request_socket = call.socketBefore
    /\ call.op = "send_request" =>
          /\ request_socket = call.socketBefore
          /\ call.raised <=> call.socketBefore = 0

C15_Witness ==
    /\ call.op = "get_message"
    /\ call.socketBefore = 0
    /\ StartupWithDescriptor(call.line)
    /\ request_socket = SupervisorFd

(* C14 *)

\* Requests the supervisor answers with a reply.
ReplyExpected == {"TriggerDagRun", "GetDagRunState", "GetTaskRescheduleStartDate"}

Contribution(c, default) ==
    IF XComGetOne(xcoms, c) = "None" THEN default ELSE XComGetOne(xcoms, c)

OwnCoords(self, key) ==
    Coords(self.dag_id, self.run_id, self.task_id, self.map_index, key)

NoFilters(a) ==
    /\ a.task_ids.kind = "None"
    /\ a.map_indexes.kind = "NotSet"
    /\ a.dag_id = "None"
    /\ a.run_id = "None"

PushAttempted ==
    \/ raisedBy = "push"
    \/ /\ raisedBy = "None"
       /\ pc \in {"success", "finally", "finalize", "exited"}
       /\ StartupCompleted

\* The XCom.set calls made so far, in order.
XComsPushed == SelectSeq(events, LAMBDA m : m.type = "XCom.set")

\* C18: if the task has a mapped dependant and produces no value to push, the
\* attempt fails with the "nothing to map over" error: no artifact is pushed,
\* no SucceedTask is sent and the outcome is not SUCCESS.
C18_NothingToMapOver ==
    (PushAttempted /\ task.is_mapped /\ XComValue(task, result) = NoneVal)
        => /\ raisedBy = "push"
           /\ exc.kind = "XComForMappingNotPushed"
           /\ XComsPushed = <<>>
           /\ Positions("SucceedTask") = {}
           /\ OutcomeDecided => (state # SUCCESS /\ state = RetryOrFailState)
           /\ RunReturned => OutcomesSent = <<RetryOrFailMsg>>

C18_Witness ==
    /\ pc = "finalize"
    /\ task.is_mapped
    /\ task.do_xcom_push
    /\ result = NoneVal
    /\ exc.kind = "XComForMappingNotPushed"
    /\ state = FAILED
    /\ XComsPushed = <<>>

(* C19 *)

\* C19: if the task has a mapped dependant and the produced value is not
\* mappable, the attempt fails with the "unmappable type" error before any
\* artifact is pushed; when the value is mappable, the return_value push
\* records a mapped length equal to the number of elements of the value.
C19_UnmappableOrMappedLength ==
    (PushAttempted /\ task.is_mapped /\ XComValue(task, result) # NoneVal)
        => IF ~IsMappableValue(result)
           THEN /\ raisedBy = "push"
                /\ exc.kind = "UnmappableXComTypePushed"
                /\ XComsPushed = <<>>
                /\ Positions("SucceedTask") = {}
           ELSE /\ \A i \in Positions("XCom.set") :
                     events[i].key = "return_value"
                        => events[i].len = Len(result.items)
                /\ raisedBy = "None"
                     => \E i \in Positions("XCom.set") : events[i].key = "return_value"

C19_Witness ==
    /\ pc = "finalize"
    /\ task.is_mapped
    /\ result.kind = "List"
    /\ state = SUCCESS
    /\ XComsPushed = <<XComSet("return_value", 2)>>

(* C20 *)

\* The value is a mapping all of whose keys are strings.
StringKeyed(v) == IsMapping(v) /\ \A i \in 1..Len(v.items) : v.items[i].isStr

\* C20: with multiple_outputs set, a produced value that is not a mapping, or
\* a mapping with a key that is not a string, fails with a type error and no
\* artifact at all has been pushed; a string-keyed mapping gives one artifact
\* per key under that key's name, then the whole value under return_value.
C20_MultipleOutputsValidatedFirst ==
    (PushAttempted /\ task.multiple_outputs /\ XComValue(task, result) # NoneVal
        /\ (task.is_mapped => IsMappableValue(result)))
        => IF ~StringKeyed(result)
           THEN /\ raisedBy = "push"
                /\ exc.kind = "TypeError"
                /\ XComsPushed = <<>>
           ELSE raisedBy = "None"
                   => /\ Len(XComsPushed) = Len(result.items) + 1
                      /\ \A i \in 1..Len(result.items) :
                            XComsPushed[i].key = result.items[i].k
                      /\ XComsPushed[Len(result.items) + 1].key = "return_value"

C20_Witness ==
    /\ pc = "finalize"
    /\ task.multiple_outputs
    /\ ~task.is_mapped
    /\ state = SUCCESS
    /\ XComsPushed = <<XComSet("a", -1), XComSet("b", -1), XComSet("return_value", -1)>>

(* C21 *)

\* The push step failed inside the XCom backend (XCom.set raised).
PushFailedInBackend ==
    raisedBy = "push" /\ exc.kind \in {"Exception", "KeyboardInterrupt"}

\* C21 as stated: with multiple_outputs not set, a task configured to push
\* whose body returns a value other than None pushes exactly one artifact,
\* under the key return_value; a task not configured to push, or whose result
\* is None, pushes no artifact when it has no mapped dependant.
C21_Original ==
    (PushAttempted /\ ~task.multiple_outputs /\ ~PushFailedInBackend)
        => IF XComValue(task, result) # NoneVal
           THEN /\ Len(XComsPushed) = 1
                /\ XComsPushed[1].key = "return_value"
           ELSE ~task.is_mapped => XComsPushed = <<>>

\* C21 amended: the same, the first half holding when the task has no mapped
\* dependant or the value is mappable (a value that cannot be mapped over
\* fails the push step before anything is pushed); in both halves the push
\* step itself does not fail.
C21_ReturnValueOnly ==
    (PushAttempted /\ ~task.multiple_outputs /\ ~PushFailedInBackend)
        => IF XComValue(task, result) # NoneVal
           THEN (task.is_mapped => IsMappableValue(result))
                    => /\ raisedBy = "None"
                       /\ Len(XComsPushed) = 1
                       /\ XComsPushed[1].key = "return_value"
           ELSE ~task.is_mapped => (raisedBy = "None" /\ XComsPushed = <<>>)

C21_Witness ==
    /\ pc = "finalize"
    /\ ~task.multiple_outputs
    /\ ~task.is_mapped
    /\ result.kind = "Dict"
    /\ state = SUCCESS
    /\ XComsPushed = <<XComSet("return_value", -1)>>

(* C22 *)

\* Positions of the replies read to the TriggerDagRun request.
TriggerReplyPositions ==
    {i \in Positions("get_message") : events[i].state \in TriggerReplies}

\* The reply to the TriggerDagRun request, once read ("None" before).
TriggerReplyRead ==
    IF TriggerReplyPositions = {} THEN "None"
    ELSE events[CHOOSE i \in TriggerReplyPositions : TRUE].state

\* C22: when the reply to the trigger-run request reports that the run already
\* exists, the outcome is SKIPPED if skip_when_already_exists is set and
\* FAILED otherwise, never UP_FOR_RETRY even when a retry is allowed; no
\* trigger_run_id artifact is pushed and no run-state poll is sent.
C22_AlreadyExistsSkipsOrFails ==
    TriggerReplyRead = "DAGRUN_ALREADY_EXISTS"
        => /\ OutcomeDecided
           /\ state = (IF exc.skip_when_already_exists THEN SKIPPED ELSE FAILED)
           /\ msg = Msg("TaskState", state, <<>>, "")
           /\ state # UP_FOR_RETRY
           /\ XComsPushed = <<>>
           /\ Positions("GetDagRunState") = {}
           /\ polls = 0
           /\ RunReturned => OutcomesSent = <<msg>>

C22_Witness ==
    /\ pc = "finalize"
    /\ TriggerReplyRead = "DAGRUN_ALREADY_EXISTS"
    /\ ~exc.skip_when_already_exists
    /\ exc.wait_for_completion
    /\ RetryAllowed
    /\ state = FAILED
    /\ OutcomesSent = <<Msg("TaskState", FAILED, <<>>, "")>>

(* C23 *)

\* C23: for any reply to the trigger request other than the already-exists
\* error (another error included), the run id is pushed as the artifact
\* trigger_run_id right after the reply and before any run-state poll; if the
\* caller did not ask to wait, no GetDagRunState request is sent and the
\* outcome is SUCCESS.
C23_RunIdPushedBeforePolling ==
    (TriggerReplyRead \notin {"None", "DAGRUN_ALREADY_EXISTS"} /\ abort # "HandlerError")
        => /\ XComsPushed = <<XComSet("trigger_run_id", -1)>>
           /\ \A i \in TriggerReplyPositions :
                 /\ events[i + 1] = XComSet("trigger_run_id", -1)
                 /\ \A j \in Positions("GetDagRunState") : i + 1 < j
           /\ ~exc.wait_for_completion
                 => /\ Positions("GetDagRunState") = {}
                    /\ OutcomeDecided
                    /\ state = SUCCESS
                    /\ msg = Msg("SucceedTask", "", <<>>, "")
                    /\ RunReturned => OutcomesSent = <<msg>>

C23_Witness ==
    /\ pc = "finalize"
    /\ TriggerReplyRead = "OtherError"
    /\ ~exc.wait_for_completion
    /\ state = SUCCESS
    /\ XComsPushed = <<XComSet("trigger_run_id", -1)>>
    /\ Positions("GetDagRunState") = {}

(* C24 *)

\* Positions of the run states read in reply to a GetDagRunState poll.
PollReplyPositions ==
    {i \in Positions("get_message") : events[i].state \in DagRunStates}

\* C24: each poll is decided on the state it reports: a state of the
\* failed-state set gives FAILED (also when the state is in the allowed-state
\* set too); otherwise a state of the allowed-state set ends the polling with
\* SUCCESS and a SucceedTask message; otherwise another poll is issued.  While
\* the worker is polling no outcome message has been sent.
C24_PollDecision ==
    /\ pc = "trigger_poll" => (OutcomesSent = <<>> /\ msg = NoMsg)
    /\ \A i \in PollReplyPositions :
         LET st == events[i].state
             last == \A j \in Positions("GetDagRunState") : j < i
         IN  /\ events[i - 1].type = "GetDagRunState"
             /\ IF st \in exc.failed_states
                THEN /\ last
                     /\ OutcomeDecided
                     /\ state = FAILED
                     /\ msg = Msg("TaskState", FAILED, <<>>, "")
                ELSE IF st \in exc.allowed_states
                THEN /\ last
                     /\ OutcomeDecided
                     /\ state = SUCCESS
                     /\ msg = Msg("SucceedTask", "", <<>>, "")
                ELSE \/ pc = "trigger_poll" /\ last
                     \/ i < Len(events) /\ events[i + 1].type = "GetDagRunState"
    /\ (RunReturned /\ PollReplyPositions # {}) => OutcomesSent = <<msg>>

C24_Witness ==
    /\ pc = "finalize"
    /\ exc.allowed_states = {"success", "failed"}
    /\ exc.failed_states = {"failed"}
    /\ Cardinality(PollReplyPositions) = 2
    /\ events[Len(events) - 1] = Read("failed")
    /\ state = FAILED
    /\ OutcomesSent = <<Msg("TaskState", FAILED, <<>>, "")>>

(* C25 *)

\* The callback lists finalize chooses from, and the listener notifications
\* it makes on an outcome.
StateChangeCallbacks ==
    {"on_success_callback", "on_skipped_callback", "on_retry_callback",
     "on_failure_callback"}
OutcomeListeners == {"on_task_instance_success", "on_task_instance_failed"}

\* The hooks run by finalize, in order (the on_execute callbacks run earlier).
FinalizeHooks ==
    SelectSeq(hooks, LAMBDA h : h.hook \notin {"on_starting", "on_task_instance_running",
                                                "pre_execute", "on_execute_callback",
                                                "post_execute"})

\* The entries of the log for one hook name, in order.
HooksNamed(name) == SelectSeq(hooks, LAMBDA h : h.hook = name)

\* finalize() was entered and left, by return or by an Exception, without
\* having been interrupted.
FinalizeLeft == Exited /\ RunReturned /\ "finalize" \notin interrupts

\* The second, unguarded send_email of _send_task_error_email raised.
MailFailed == \E i \in DOMAIN hooks :
                 hooks[i].hook = "send_email" /\ hooks[i].index = 2 /\ hooks[i].raised

\* A state-change callback or an outcome listener raised in finalize.
BestEffortHookError ==
    \E i \in DOMAIN hooks :
        hooks[i].hook \in StateChangeCallbacks \cup OutcomeListeners /\ hooks[i].raised

\* C25: when a state-change callback or a listener notification raises in
\* finalize, the error stays inside finalize: every callback of the list is
\* still run, in list order; the outcome decided is unchanged and remains the
\* only outcome message sent; and finalize goes on to its end (the
\* before_stopping notification, then exit code 0) unless sending the e-mail
\* fails.
C25_HookErrorsSwallowed ==
    (FinalizeLeft /\ BestEffortHookError)
        => /\ CallbackKindFor(state) # "None" =>
                 /\ Len(HooksNamed(CallbackKindFor(state))) = task[CallbackKindFor(state)]
                 /\ \A i \in 1..task[CallbackKindFor(state)] :
                       HooksNamed(CallbackKindFor(state))[i].index = i
           /\ OutcomesSent = <<msg>>
           /\ msg.type \in OutcomeTypes
           /\ state = (CASE msg.type = "SucceedTask" -> SUCCESS
                         [] msg.type = "RetryTask" -> UP_FOR_RETRY
                         [] msg.type = "DeferTask" -> DEFERRED
                         [] msg.type = "RescheduleTask" -> UP_FOR_RESCHEDULE
                         [] OTHER -> msg.state)
           /\ ~MailFailed =>
                 /\ abort = "None"
                 /\ exitCode = 0
                 /\ hooks[Len(hooks)].hook = "before_stopping"

C25_Witness ==
    /\ Exited
    /\ exitCode = 0
    /\ state = FAILED
    /\ OutcomesSent = <<Msg("TaskState", FAILED, <<>>, "")>>
    /\ HooksNamed("on_failure_callback") =
          <<Hook("on_failure_callback", 1, TRUE), Hook("on_failure_callback", 2, FALSE)>>
    /\ HooksNamed("on_task_instance_failed") = <<Hook("on_task_instance_failed", 0, TRUE)>>
    /\ hooks[Len(hooks)].hook = "before_stopping"

(* C26 *)

\* The hooks of a log as (name, index) pairs.
Calls(log) == [i \in DOMAIN log |-> <<log[i].hook, log[i].index>>]

\* The state-change callbacks and outcome listeners run so far, in order.
OutcomeHooksRun ==
    Calls(SelectSeq(hooks, LAMBDA h : h.hook \in StateChangeCallbacks \cup OutcomeListeners))

\* n callbacks of one list, then one listener notification.
CallbacksThenListener(kind, n, listener) ==
    [i \in 1..n |-> <<kind, i>>] \o <<<<listener, 0>>>>

\* C26: finalize runs exactly the hooks that match the outcome: SUCCESS the
\* on_success callbacks then the success listener; SKIPPED only the on_skipped
\* callbacks; UP_FOR_RETRY the on_retry callbacks then the failure listener;
\* FAILED the on_failure callbacks then the failure listener; DEFERRED and
\* UP_FOR_RESCHEDULE nothing.  A callback of a list not matching the outcome
\* is never run.
C26_HooksMatchOutcome ==
    /\ \A i \in DOMAIN hooks :
          hooks[i].hook \in StateChangeCallbacks \cup OutcomeListeners
             => /\ RunReturned
                /\ hooks[i].hook \in (CASE state = SUCCESS ->
                                            {"on_success_callback", "on_task_instance_success"}
                                        [] state = SKIPPED -> {"on_skipped_callback"}
                                        [] state = UP_FOR_RETRY ->
                                            {"on_retry_callback", "on_task_instance_failed"}
                                        [] state = FAILED ->
                                            {"on_failure_callback", "on_task_instance_failed"}
                                        [] OTHER -> {})
    /\ FinalizeCompleted =>
          OutcomeHooksRun =
             (CASE state = SUCCESS ->
                     CallbacksThenListener("on_success_callback", task.on_success_callback,
                                           "on_task_instance_success")
               [] state = SKIPPED ->
                     [i \in 1..task.on_skipped_callback |-> <<"on_skipped_callback", i>>]
               [] state = UP_FOR_RETRY ->
                     CallbacksThenListener("on_retry_callback", task.on_retry_callback,
                                           "on_task_instance_failed")
               [] state = FAILED ->
                     CallbacksThenListener("on_failure_callback", task.on_failure_callback,
                                           "on_task_instance_failed")
               [] OTHER -> <<>>)

C26_Witness ==
    /\ FinalizeCompleted
    /\ state = UP_FOR_RETRY
    /\ task.on_failure_callback = MaxCallbacks
    /\ OutcomeHooksRun =
          CallbacksThenListener("on_retry_callback", MaxCallbacks, "on_task_instance_failed")

(* C27 *)

\* _send_task_error_email was called.
MailAttempted == HooksNamed("send_email") # <<>>

\* finalize() got as far as the branch on the outcome.
FinalizeDispatched == FinalizeLeft /\ FinalizeHooks # <<>>

\* C27: in finalize an e-mail is sent exactly when the outcome is FAILED and
\* the task has failure e-mail enabled with recipients configured, or the
\* outcome is UP_FOR_RETRY and retry e-mail is enabled with recipients; for
\* no other outcome is one sent.
C27_EmailOnFailureOrRetry ==
    FinalizeDispatched =>
        (MailAttempted <=>
            \/ state = FAILED /\ task.email_on_failure /\ task.email
            \/ state = UP_FOR_RETRY /\ task.email_on_retry /\ task.email)

(* C28 *)

\* C28: every invocation of finalize, whatever the outcome, ends by attempting
\* the before_stopping notification, and a failure of that notification is
\* swallowed: finalize still returns and the process exits with code 0.
C28_AlwaysBeforeStopping ==
    FinalizeLeft =>
        /\ FinalizeHooks # <<>>
        /\ FinalizeHooks[Len(FinalizeHooks)].hook = "before_stopping"
        /\ Len(HooksNamed("before_stopping")) = 1
        /\ abort = "None"
        /\ exitCode = 0

(* C29 *)

\* _execute_task has gone past the on_execute callbacks.
OnExecuteCallbacksDone ==
    /\ StartupCompleted
    /\ pc \notin {"clear", "prepare", "pre_execute"}
    /\ raisedBy \notin {"clear", "prepare", "pre_execute", "on_execute_callback"}

\* C29: an exception raised by an on_execute callback is logged only: every
\* on_execute callback is still run, in list order; the error never becomes
\* the error of the attempt; the task body is still executed; and the outcome
\* is the one the body produces (SUCCESS when it returns and the result is
\* pushed, else the outcome its signal is mapped to).
C29_OnExecuteErrorsLogged ==
    /\ raisedBy = "on_execute_callback" => exc.kind = "KeyboardInterrupt"
    /\ OnExecuteCallbacksDone =>
          /\ Len(HooksNamed("on_execute_callback")) = task.on_execute_callback
          /\ \A i \in 1..task.on_execute_callback :
                HooksNamed("on_execute_callback")[i].index = i
    /\ (OnExecuteCallbacksDone /\ \E i \in DOMAIN hooks :
             hooks[i].hook = "on_execute_callback" /\ hooks[i].raised)
          => /\ pc # "body" => (bodyInvoked \/ deadlineHit)
             /\ raisedBy \in {"None", "body", "deadline", "post_execute", "push"}
             /\ (OutcomeDecided /\ raisedBy = "None") => state = SUCCESS
             /\ (OutcomeDecided /\ raisedBy = "body" /\ exc.kind # "AirflowTaskTerminated")
                   => state \in RuleOutcomes(PriorityRule(exc.kind))

C29_Witness ==
    /\ pc = "finalize"
    /\ bodyInvoked
    /\ raisedBy = "None"
    /\ state = SUCCESS
    /\ HooksNamed("on_execute_callback") =
          <<Hook("on_execute_callback", 1, TRUE), Hook("on_execute_callback", 2, FALSE)>>
    /\ OutcomesSent = <<Msg("SucceedTask", "", <<>>, "")>>

(* C30 *)

\* The pre-execute / post-execute hook was called and raised.
PreHookFailed == HooksNamed("pre_execute") = <<Hook("pre_execute", 0, TRUE)>>
PostHookFailed == HooksNamed("post_execute") = <<Hook("post_execute", 0, TRUE)>>

-----------------------------------------------------------------------------
(* Listener errors during startup and preparation *)

\* The "runtime starting" / "instance running" listener was notified and raised.
StartingListenerFailed == HooksNamed("on_starting") = <<Hook("on_starting", 0, TRUE)>>
RunningListenerFailed ==
    HooksNamed("on_task_instance_running") = <<Hook("on_task_instance_running", 0, TRUE)>>

\* The first message was a StartupDetails and the task was resolved from it.
TaskResolved == abort \notin {"StartupError", "ResolutionError"}

\* C31: an exception raised by the "runtime starting" listener in startup or
\* by the "instance running" listener in preparation is logged and swallowed:
\* startup still resolves the task and builds the context (it fails only for
\* what the message or the resolution itself raises), preparation is left
\* normally, the body is still executed, and the outcome is the one the rest
\* of the attempt produces.
C31_ListenerErrorsSwallowed ==
    /\ StartingListenerFailed =>
         /\ abort # "ListenerError"
         /\ TaskResolved => StartupCompleted
    /\ RunningListenerFailed =>
         /\ pc \notin {"startup", "clear", "prepare"}
         /\ raisedBy \notin {"clear", "prepare"}
    /\ (StartingListenerFailed \/ RunningListenerFailed) =>
         /\ pc \in {"post_execute", "push", "success"} => bodyInvoked
         /\ OutcomeDecided /\ raisedBy = "None" => bodyInvoked /\ state = SUCCESS
         /\ (OutcomeDecided /\ raisedBy = "body" /\ exc.kind # "AirflowTaskTerminated")
              => state \in RuleOutcomes(PriorityRule(exc.kind))
         /\ OutcomeDecided /\ raisedBy \notin {"clear", "prepare", "pre_execute",
                                                "on_execute_callback", "deadline"}
              => bodyInvoked

\* Both listeners raised, the body ran and the attempt succeeded.
C31_Witness ==
    /\ StartingListenerFailed
    /\ RunningListenerFailed
    /\ pc = "finalize"
    /\ bodyInvoked
    /\ state = SUCCESS
    /\ msg.type = "SucceedTask"

-----------------------------------------------------------------------------
(* Resumption after a deferral *)

\* The run context carries a method to resume with.
ResumptionPresent == ctx.present /\ ctx.next_method # "None"

\* C32: if the run context carries a next_method, the body is invoked through
\* the task's resume_execution with that method name and the deserialized
\* stored keyword arguments (the empty mapping when none are stored), and not
\* through execute; execute is the entry point only when no resumption method
\* is present.
C32_ResumeEntryPoint ==
    /\ ~bodyInvoked => entry = NoEntry
    /\ bodyInvoked /\ ResumptionPresent =>
         /\ entry.method = "resume_execution"
         /\ entry.next_method = ctx.next_method
         /\ ctx.next_kwargs \in {"None", "{}"} => entry.next_kwargs = "{}"
         /\ ctx.next_kwargs = "{\"__var\": {\"event\": 1}}"
               => entry.next_kwargs = "{\"event\": 1}"
    /\ bodyInvoked /\ ~ResumptionPresent =>
         /\ entry.method = "execute"
         /\ entry.next_method = "None"

\* A resumed attempt with no stored keyword arguments ran to its outcome.
C32_Witness ==
    /\ pc = "finalize"
    /\ bodyInvoked
    /\ ctx.next_method = "execute_complete"
    /\ ctx.next_kwargs = "None"
    /\ entry.method = "resume_execution"
    /\ entry.next_kwargs = "{}"

-----------------------------------------------------------------------------
(* The context exported to the process environment *)

\* The variables of the context are set in os.environ.
ContextExported == AirflowContextVars \subseteq environ

\* The part of C34 about the body: the variables are set whenever the body
\* is about to run or has been invoked.
ContextExportedForBody == (pc = "body" \/ bodyInvoked) => ContextExported

\* C34: the context-derived environment variables are present in the process
\* environment while the body runs, and for the duration of the body only:
\* once the outcome is decided (outcome handling, finalize, exit) none of
\* them is present any more.
C34_ContextVarsBodyOnly ==
    /\ ContextExportedForBody
    /\ (OutcomeDecided \/ Exited) => environ \cap AirflowContextVars = {}

-----------------------------------------------------------------------------
(* Clearing stale XCom keys *)

\* The keys of the XCom.delete calls made so far, in call order.
KeysDeleted ==
    LET deletes == SelectSeq(events, LAMBDA m : m.type = "XCom.delete")
    IN  [i \in 1..Len(deletes) |-> deletes[i].key]

\* The clearing loop was left without an exception.
ClearingDone ==
    /\ StartupCompleted
    /\ pc \notin {"startup", "clear"}
    /\ raisedBy # "clear"

\* C35: before the body (and before the templates are rendered) every key of
\* xcom_keys_to_clear is deleted, one delete per key in list order; an empty
\* list or no run context means no delete; if a delete fails the body is
\* never run and the outcome follows the retry-or-fail rule.
C35_StaleKeysCleared ==
    /\ ClearingDone =>
         KeysDeleted = (IF ctx.present THEN ctx.xcom_keys_to_clear ELSE <<>>)
    /\ Len(KeysDeleted) <= Len(ctx.xcom_keys_to_clear)
    /\ \A i \in 1..Len(KeysDeleted) : KeysDeleted[i] = ctx.xcom_keys_to_clear[i]
    /\ \A i \in Positions("XCom.delete") : \A j \in 1..i : events[j].type = "XCom.delete"
    /\ (bodyInvoked \/ Positions("SetRenderedFields") # {}) => ClearingDone
    /\ raisedBy = "clear" =>
         /\ ~bodyInvoked
         /\ (OutcomeDecided /\ exc.kind \in RetryableKinds) =>
              state = RetryOrFailState /\ msg = RetryOrFailMsg

\* Two stale keys were deleted in list order and the body then ran.
C35_Witness ==
    /\ Len(ctx.xcom_keys_to_clear) = MaxKeys
    /\ ctx.xcom_keys_to_clear[1] # ctx.xcom_keys_to_clear[2]
    /\ KeysDeleted = ctx.xcom_keys_to_clear
    /\ bodyInvoked

\* A delete failed with one key already deleted; the attempt is up for retry.
C35_WitnessFailedDelete ==
    /\ raisedBy = "clear"
    /\ Len(KeysDeleted) = 1
    /\ pc = "finalize"
    /\ state = UP_FOR_RETRY

-----------------------------------------------------------------------------
(* Reporting the rendered fields *)

\* _prepare got past the rendering and the SetRenderedFields step.
RenderingDone ==
    /\ StartupCompleted
    /\ pc \notin {"startup", "clear", "prepare"}
    /\ raisedBy \notin {"clear", "prepare"}

\* The positions of the SetRenderedFields requests sent before the outcome
\* message (all of them while no outcome message is sent).
RenderedFieldsBeforeOutcome ==
    {i \in Positions("SetRenderedFields") :
        \A j \in 1..i : events[j].type \notin OutcomeTypes}

\* C36: during preparation a SetRenderedFields request is sent if and only if
\* the serialized rendered-field mapping is non-empty (the task has a template
\* field); when sent, it is sent once, before the body is invoked and before
\* the outcome message, and no reply is read for it.
C36_RenderedFieldsSentIffAny ==
    /\ RenderingDone =>
         Cardinality(RenderedFieldsBeforeOutcome) = (IF task.template_fields THEN 1 ELSE 0)
    /\ Cardinality(RenderedFieldsBeforeOutcome) <= 1
    /\ ~task.template_fields => Positions("SetRenderedFields") = {}
    /\ (bodyInvoked /\ task.template_fields) => RenderedFieldsBeforeOutcome # {}
    /\ \A i \in Positions("SetRenderedFields") :
         i < Len(events) => events[i + 1].type # "get_message"

\* The rendered fields were reported, the body ran and the outcome was sent
\* after the report.
C36_Witness ==
    /\ task.template_fields
    /\ ~task.overwrite_rtif_after_execution
    /\ bodyInvoked
    /\ pc = "finalize"
    /\ Len(OutcomesSent) = 1
    /\ Cardinality(Positions("SetRenderedFields")) = 1
    /\ events[Len(events)].type \in OutcomeTypes

-----------------------------------------------------------------------------
(* What run() returns *)

\* The type of the outcome message each final state is reported with.
MessageTypeFor(st) ==
    CASE st = SUCCESS -> "SucceedTask"
      [] st \in {FAILED, SKIPPED} -> "TaskState"
      [] st = UP_FOR_RETRY -> "RetryTask"
      [] st = UP_FOR_RESCHEDULE -> "RescheduleTask"
      [] st = DEFERRED -> "DeferTask"
      [] OTHER -> "None"

\* C37: whenever run() returns, the state and the outcome message agree
\* (SUCCESS with SucceedTask, FAILED or SKIPPED with a TaskState of the same
\* state, UP_FOR_RETRY with RetryTask, UP_FOR_RESCHEDULE with RescheduleTask,
\* DEFERRED with DeferTask), the message sent is that message, and the returned
\* error is absent for SUCCESS, SKIPPED, DEFERRED and UP_FOR_RESCHEDULE and
\* present for UP_FOR_RETRY.
C37_StateAndMessageAgree ==
    RunReturned =>
        /\ state \in {SUCCESS, FAILED, SKIPPED, UP_FOR_RETRY, UP_FOR_RESCHEDULE, DEFERRED}
        /\ msg.type = MessageTypeFor(state)
        /\ msg.type = "TaskState" => msg.state = state
        /\ OutcomesSent = <<msg>>
        /\ state \in {SUCCESS, SKIPPED, DEFERRED, UP_FOR_RESCHEDULE} => error = "None"
        /\ state = UP_FOR_RETRY => error # "None"

\* run() returned UP_FOR_RETRY with RetryTask sent and the error recorded.
C37_Witness ==
    /\ pc = "finalize"
    /\ state = UP_FOR_RETRY
    /\ msg.type = "RetryTask"
    /\ OutcomesSent = <<msg>>
    /\ error # "None"

-----------------------------------------------------------------------------
(* Termination of the task from outside *)

\* C38: when the body raises AirflowTaskTerminated the outcome is FAILED,
\* reported with TaskState(FAILED), and the error is recorded; it is never
\* UP_FOR_RETRY, even when a retry is allowed.
C38_TerminatedFails ==
    (OutcomeDecided /\ raisedBy # "None" /\ exc.kind = "AirflowTaskTerminated") =>
        /\ state = FAILED
        /\ msg = Msg("TaskState", FAILED, <<>>, "")
        /\ error = "AirflowTaskTerminated"

\* The body was terminated in an attempt that may be retried; it failed.
C38_Witness ==
    /\ pc = "finalize"
    /\ raisedBy = "body"
    /\ exc.kind = "AirflowTaskTerminated"
    /\ RetryAllowed
    /\ state = FAILED
    /\ OutcomesSent = <<Msg("TaskState", FAILED, <<>>, "")>>

-----------------------------------------------------------------------------
(* The outcome message and finalize *)

\* The events logged after the (first) outcome message.
AfterOutcome ==
    {j \in 1..Len(events) :
        \E i \in 1..(j - 1) : events[i].type \in OutcomeTypes}

\* C39: the outcome message is sent before finalize runs any state-change
\* callback, listener or e-mail; finalize itself never sends an outcome
\* message; the only messages sent after the outcome message are
\* SetRenderedFields (overwrite_rtif_after_execution set and the task has
\* template fields) and the extra-link artifacts.
C39_OutcomeBeforeFinalize ==
    /\ pc = "finalize" => OutcomesSent = <<msg>> /\ FinalizeHooks = <<>>
    /\ FinalizeHooks # <<>> => RunReturned
    /\ RunReturned => OutcomesSent = <<msg>>
    /\ \A j \in AfterOutcome :
         /\ events[j].type \in {"SetRenderedFields", "XCom._set_xcom_in_db"}
         /\ events[j].type = "SetRenderedFields" =>
              task.overwrite_rtif_after_execution /\ task.template_fields
         /\ events[j].type = "XCom._set_xcom_in_db" =>
              events[j].key = "extra_link" /\ task.operator_extra_links > 0
         /\ Exited

\* finalize ran its hooks and sent an extra link and the rendered fields
\* after the one outcome message.
C39_Witness ==
    /\ Exited
    /\ abort = "None"
    /\ FinalizeHooks # <<>>
    /\ Len(OutcomesSent) = 1
    /\ \E j \in AfterOutcome : events[j].type = "SetRenderedFields"
    /\ \E j \in AfterOutcome : events[j].type = "XCom._set_xcom_in_db"

-----------------------------------------------------------------------------
(* The first reschedule date of a sensor *)

\* get_first_reschedule_date was called and ran to its end (returned, or
\* raised what the read of the reply raised).
RescheduleDateCallEnded == call.op = "get_first_reschedule_date" /\ ~call.interrupted

\* The positions of the GetTaskRescheduleStartDate requests in the log.
RescheduleRequests == Positions("GetTaskRescheduleStartDate")

\* C40: get_first_reschedule_date sends no request and returns None when
\* task_reschedule_count is 0 or absent; otherwise it sends exactly one
\* GetTaskRescheduleStartDate whose try_number is max_tries - retries + 1
\* (retries unset counting as 0), reads exactly one reply and returns the
\* start date of that reply.
C40_FirstRescheduleDate ==
    RescheduleDateCallEnded =>
        IF ~ctx.present \/ ctx.task_reschedule_count = 0
        THEN /\ RescheduleRequests = {}
             /\ call.ret = "None"
             /\ ~call.raised
             /\ pc = "body" => Positions("get_message") = {}
        ELSE /\ Cardinality(RescheduleRequests) = 1
             /\ \A p \in RescheduleRequests :
                  /\ events[p].try_number =
                        ctx.max_tries
                          - (IF task.retries = NoRetries THEN 0 ELSE task.retries) + 1
                  /\ p < Len(events)
                  /\ events[p + 1].type = "get_message"
                  /\ p + 1 < Len(events) => events[p + 2].type # "get_message"
             /\ ~call.raised =>
                  /\ call.ret \in StartDates
                  /\ call.reply = DateLine(call.ret)

\* A sensor with one retry, rescheduled before, on a budget of two tries: the
\* request names try 2 and the date of the reply is returned.
C40_Witness ==
    /\ RescheduleDateCallEnded
    /\ task.retries = 1
    /\ ctx.max_tries = 2
    /\ ctx.task_reschedule_count = 1
    /\ \E p \in RescheduleRequests : events[p].try_number = 2
    /\ call.ret = "2024-01-01"

\* A sensor without a context from the server: nothing is sent.
C40_WitnessAbsent ==
    /\ RescheduleDateCallEnded
    /\ ~ctx.present
    /\ call.ret = "None"

-----------------------------------------------------------------------------
(* Termination of the wait for a triggered run *)

\* While the worker is in the polling loop: no outcome is decided, one
\* GetDagRunState was sent per poll, and every state reported so far lies
\* outside the allowed and the failed set.
StillPolling ==
    /\ OutcomesSent = <<>>
    /\ Cardinality(Positions("GetDagRunState")) = polls
    /\ \A i \in PollReplyPositions :
         events[i].state \notin (exc.allowed_states \cup exc.failed_states)

\* The wait is over: the process has ended, and unless a reply could not be
\* decoded, run() returned with exactly one outcome message sent.
WaitOver ==
    /\ Exited
    /\ abort # "ReplyDecodeError" => (RunReturned /\ Len(OutcomesSent) = 1)

\* C33: for a trigger with waiting requested, the worker keeps polling as
\* long as the reported state stays outside the allowed and the failed set
\* (the loop has no bound of its own), and once the triggered run reports a
\* state of either set, the supervisor answering every poll, polling
\* terminates and exactly one outcome message is eventually sent.
C33_PollingTerminates ==
    /\ [](pc = "trigger_poll" => StillPolling)
    /\ (pc = "trigger_poll") ~> WaitOver

\* As many non-final states as the supervisor may report were polled, then a
\* final one; run() returned with the one outcome message.
C33_Witness ==
    /\ pc = "finalize"
    /\ exc.wait_for_completion
    /\ polls = MaxPolls + 1
    /\ Cardinality(PollReplyPositions) = MaxPolls + 1
    /\ Len(OutcomesSent) = 1

====
